---- MODULE Spec2Model ----
\* A model of dan-lugg/go-commands: the Mapping, Decoder and Handler catalogs,
\* the lazily constructing Handler Adapter and the Manager that composes them.
\* Goroutines are the members of Threads; every sync.RWMutex is modelled with
\* its holder, its pending writer and its reader count, and every method is
\* cut into steps at its lock operations.
EXTENDS Integers, Sequences, FiniteSets, TLC

\* ---------------------------------------------------------------- bounds

\* Number of operations the goroutines may start in one behaviour.
MaxOps == 3
\* The longest sleep of a function of the tests, in units of 100ms.
MaxSleep == 2

\* ------------------------------------------------------------ data model

Threads == {"g1", "g2"}
NoThread == "none"

Names == {"add", "sub"}
ReqTypes == {"AddCommandReq", "SubCommandReq"}
ResTypes == {"AddCommandRes", "SubCommandRes"}
NilType == "nil"

\* The untyped nil interface value (a nil CommandReq / CommandRes / reflect.Type).
NilVal == [type |-> NilType]

\* reflect.TypeOf(v)
TypeOf(v) == v.type

AddCommandReq(x, y) == [type |-> "AddCommandReq", ArgX |-> x, ArgY |-> y]
SubCommandReq(x, y) == [type |-> "SubCommandReq", ArgX |-> x, ArgY |-> y]
AddCommandRes(r) == [type |-> "AddCommandRes", Result |-> r]
SubCommandRes(r) == [type |-> "SubCommandRes", Result |-> r]

\* The zero value *new(T) of a request or result struct type.
ZeroOf(T) ==
    CASE T = "AddCommandReq" -> AddCommandReq(0, 0)
      [] T = "SubCommandReq" -> SubCommandReq(0, 0)
      [] T = "AddCommandRes" -> AddCommandRes(0)
      [] T = "SubCommandRes" -> SubCommandRes(0)
      [] OTHER -> NilVal

\* --------------------------------------------------------------- errors

\* An error is its wrap chain, outermost first; the nil error is the empty
\* chain. fmt.Errorf with %w puts a context in front of the wrapped chain.
NilErr == << >>
Errorf(ctx, err) == <<ctx>> \o err
\* fmt.Errorf with %v (or %T, %s): the argument's chain is not kept.
ErrorfPlain(ctx) == <<ctx>>
\* errors.Is(err, target) for a sentinel target
Is(err, target) == \E i \in 1..Len(err) : err[i] = target

ErrMappingMissing == "mapping missing"
ErrDecoderMissing == "decoder missing"
ErrDecoderFailure == "decoder failure"
ErrHandlerMissing == "handler missing"
ErrInvalidReqType == "invalid req type"
ErrInvalidResType == "invalid res type"

\* ------------------------------------------------------------ sync.RWMutex

\* holder: the goroutine holding the write lock; waiter: the goroutine whose
\* Lock is pending (it blocks new readers); readers: read locks held.
NewRWMutex == [holder |-> NoThread, waiter |-> NoThread, readers |-> 0]

CanRLock(mu) == mu.holder = NoThread /\ mu.waiter = NoThread
RLock(mu) == [mu EXCEPT !.readers = @ + 1]
RUnlock(mu) == [mu EXCEPT !.readers = @ - 1]
\* Lock: with no writer about, it is taken at once when no reader holds the
\* mutex, and otherwise it stays pending until the readers have left.
CanLock(mu) == mu.holder = NoThread /\ mu.waiter = NoThread
Lock(mu, t) ==
    IF mu.readers = 0 THEN [mu EXCEPT !.holder = t] ELSE [mu EXCEPT !.waiter = t]
CanLockPending(mu, t) == mu.waiter = t /\ mu.readers = 0
LockPending(mu, t) == [mu EXCEPT !.holder = t, !.waiter = NoThread]
Unlock(mu) == [mu EXCEPT !.holder = NoThread]

\* ------------------------------------------------------------- variables

VARIABLES
    nameMappings,   \* MappingCatalog.nameMappings : name -> request type
    typeMappings,   \* MappingCatalog.typeMappings : request type -> name
    mapMutex,       \* MappingCatalog.mutex
    insLog,         \* history: the completed MappingCatalog.Insert calls, in order
    decoders,       \* DecoderCatalog.decoders : request type -> Decoder
    decMutex,       \* DecoderCatalog.mutex
    adapters,       \* HandlerCatalog.adapters : request type -> adapter (its place in heap)
    hcMutex,        \* HandlerCatalog.mutex
    heap,           \* the DefaultHandlerAdapter objects allocated so far
    mgrDone,        \* history: request types some completed Manager Insert registered
    decLog,         \* history: the completed DecoderCatalog.Insert calls, in order
    hiLog,          \* history: the completed HandlerCatalog.Insert calls, in order
    futures,        \* the future[R] objects started so far, each with its goroutine
    waitLog,        \* history: the (future, value) pairs the Wait calls returned
    now,            \* the clock of the sleeping functions, in units of 100ms
    th,             \* the goroutines: position, arguments, locals, results
    ops             \* operations started so far

mapVars == <<nameMappings, typeMappings, mapMutex, insLog>>
decVars == <<decoders, decMutex>>
hcVars == <<adapters, hcMutex, heap>>
logVars == <<decLog, hiLog>>
futVars == <<futures, waitLog, now>>
vars == <<mapVars, decVars, hcVars, mgrDone, logVars, futVars, th, ops>>

\* The map update as it would be if it kept an entry the key already has.
PutIfAbsent(m, k, v) == [x \in (DOMAIN m) \cup {k} |-> IF x \in DOMAIN m THEN m[x] ELSE v]

\* Map update m[k] = v of a Go map modelled as a function on its key set.
Put(m, k, v) == [x \in (DOMAIN m) \cup {k} |-> IF x = k THEN v ELSE m[x]]
EmptyMap == [x \in {} |-> NilType]

\* No outer call: the goroutine is not inside a handler that dispatches.
NoFrame == [ad |-> 0, req |-> NilVal]

\* A goroutine between two operations. The fields keep the arguments and the
\* results of the operation it finished last.
Idle ==
    [pc |-> "idle", op |-> "none",
     \* arguments
     name |-> "", typ |-> NilType, data |-> NilVal, req |-> NilVal,
     tres |-> NilType, ad |-> 0, fut |-> 0,
     \* locals
     dec |-> NilVal, handler |-> 0, cres |-> NilVal, cerr |-> NilErr,
     \* history: what the handler returned, whether it ran, and whether the
     \* type HandleRaw resolved had been registered by a completed Insert
     called |-> FALSE, hres |-> NilVal, herr |-> NilErr, full |-> FALSE,
     \* history: how many times the operation called handler.Handle
     calls |-> 0,
     \* history: how many Inserts the catalog had completed when the operation
     \* read the decoders map and the adapters map
     decSeen |-> 0, hiSeen |-> 0,
     \* history: how many other goroutines were inside the handler of the same
     \* adapter when the operation entered it
     inside |-> 0,
     \* the call stack: how many handlers the goroutine is inside that have
     \* called HandlerCatalog.Handle themselves, and the adapter and the
     \* request of the outer call
     depth |-> 0, outer |-> NoFrame,
     \* results
     rtype |-> NilType, rname |-> "", res |-> NilVal, err |-> NilErr,
     typeMap |-> EmptyMap]


Init ==
    /\ nameMappings = EmptyMap
    /\ typeMappings = EmptyMap
    /\ mapMutex = NewRWMutex
    /\ insLog = << >>
    /\ decoders = EmptyMap
    /\ decMutex = NewRWMutex
    /\ adapters = EmptyMap
    /\ hcMutex = NewRWMutex
    /\ heap = << >>
    /\ mgrDone = {}
    /\ decLog = << >>
    /\ hiLog = << >>
    /\ futures = << >>
    /\ waitLog = << >>
    /\ now = 0
    /\ th = [t \in Threads |-> Idle]
    /\ ops = 0

\* A goroutine starts an operation: rec holds its arguments and first position.
Begin(t, rec) ==
    /\ th[t].pc = "idle"
    /\ ops < MaxOps
    /\ ops' = ops + 1
    /\ th' = [th EXCEPT ![t] = rec]

\* An operation returns (res, err) to the test goroutine.
Finish(rec, res, err) == [rec EXCEPT !.pc = "idle", !.res = res, !.err = err]

\* ----------------------------------------------------------------- Manager

\* Insert as it would be with the InsertDecoder call left out.
InsertSkipsDecoder(rec, stage) ==
    IF rec.op = "ManagerInsert"
    THEN CASE stage = "mapping" -> [rec EXCEPT !.pc = "hi_lock"]
           [] OTHER -> [rec EXCEPT !.pc = "idle"]
    ELSE [rec EXCEPT !.pc = "idle"]

\* Insert[TReq, TRes](manager, reqName, decoder, factory): where the goroutine
\* goes when the catalog insert of the given stage has returned. A catalog's
\* own Insert, called directly, returns to the test goroutine.
Insert(rec, stage) ==
    IF rec.op = "ManagerInsert"
    THEN CASE stage = "mapping" -> [rec EXCEPT !.pc = "di_lock"]
           [] stage = "decoder" -> [rec EXCEPT !.pc = "hi_lock"]
           [] OTHER -> [rec EXCEPT !.pc = "idle"]
    ELSE [rec EXCEPT !.pc = "idle"]

\* HandleRaw as it would be if the mapping error were formatted with %v.
HandleRawByNameUnwrapped(rec, reqType, err) ==
    IF err # NilErr
    THEN Finish(rec, NilVal, ErrorfPlain("error mapping request type by name"))
    ELSE [rec EXCEPT !.typ = reqType, !.pc = "dc_rlock"]

\* Manager.HandleRaw after mappingCatalog.ByName returned
HandleRawByName(rec, reqType, err) ==
    IF err # NilErr
    THEN Finish(rec, NilVal, Errorf("error mapping request type by name", err))
    ELSE [rec EXCEPT !.typ = reqType, !.pc = "dc_rlock"]

\* HandleRaw as it would be if it went on to the handler after a failed decode.
HandleRawDecodeContinues(rec, req, err) ==
    [rec EXCEPT !.req = req, !.pc = "hh_rlock"]

\* Manager.HandleRaw after decoderCatalog.Decode returned
HandleRawDecode(rec, req, err) ==
    IF err # NilErr
    THEN Finish(rec, NilVal, Errorf("error decoding request", err))
    ELSE [rec EXCEPT !.req = req, !.pc = "hh_rlock"]

\* HandleRaw as it would be if it returned nil where it returns res.
HandleRawHandleNoResult(rec, res, err) ==
    IF err # NilErr
    THEN Finish(rec, NilVal, Errorf("error handling request", err))
    ELSE Finish(rec, NilVal, NilErr)

\* Manager.HandleRaw after handlerCatalog.Handle returned
HandleRawHandle(rec, res, err) ==
    IF err # NilErr
    THEN Finish(rec, NilVal, Errorf("error handling request", err))
    ELSE Finish(rec, res, NilErr)

\* Manager.HandleReq as it would be if it returned nil where it returns res.
ManagerHandleReqNoResult(res, err) ==
    IF err # NilErr
    THEN [res |-> NilVal, err |-> Errorf("error handling request", err)]
    ELSE [res |-> NilVal, err |-> NilErr]

\* Manager.HandleReq(req, ctx) after handlerCatalog.Handle returned (res, err)
ManagerHandleReq(res, err) ==
    IF err # NilErr
    THEN [res |-> NilVal, err |-> Errorf("error handling request", err)]
    ELSE [res |-> res, err |-> NilErr]

\* HandleReq as it would be if it asserted the type before it looked at err.
HandleReqAssertsFirst(genericRes, err, TRes) ==
    IF TypeOf(genericRes) # TRes
    THEN [panic |-> TRUE, res |-> NilVal, err |-> NilErr]
    ELSE IF err # NilErr
         THEN [panic |-> FALSE, res |-> ZeroOf(TRes),
               err |-> Errorf("error handling request", err)]
         ELSE [panic |-> FALSE, res |-> genericRes, err |-> NilErr]

\* HandleReq[TReq, TRes](manager, req, ctx) after manager.HandleReq returned
\* (genericRes, err): the type assertion genericRes.(TRes) has no ok form and
\* panics when the result is of another type.
HandleReq(genericRes, err, TRes) ==
    IF err # NilErr
    THEN [panic |-> FALSE, res |-> ZeroOf(TRes),
          err |-> Errorf("error handling request", err)]
    ELSE IF TypeOf(genericRes) # TRes
         THEN [panic |-> TRUE, res |-> NilVal, err |-> NilErr]
         ELSE [panic |-> FALSE, res |-> genericRes, err |-> NilErr]

\* ------------------------------------------------------- Mapping Catalog

\* MappingCatalog.Insert(reqName, reqType)
CallMappingInsert(t) ==
    \E n \in Names, T \in ReqTypes :
        /\ Begin(t, [Idle EXCEPT !.pc = "mi_lock", !.op = "MappingInsert",
                                 !.name = n, !.typ = T])
        /\ UNCHANGED <<mapVars, decVars, hcVars, mgrDone, logVars, futVars>>

\* m.mutex.Lock()
MappingInsertLock(t) ==
    /\ th[t].pc = "mi_lock"
    /\ CanLock(mapMutex)
    /\ mapMutex' = Lock(mapMutex, t)
    /\ th' = [th EXCEPT ![t].pc = IF mapMutex'.holder = t THEN "mi_name" ELSE "mi_wait"]
    /\ UNCHANGED <<nameMappings, typeMappings, insLog, decVars, hcVars, mgrDone, logVars, ops, futVars>>

MappingInsertWait(t) ==
    /\ th[t].pc = "mi_wait"
    /\ CanLockPending(mapMutex, t)
    /\ mapMutex' = LockPending(mapMutex, t)
    /\ th' = [th EXCEPT ![t].pc = "mi_name"]
    /\ UNCHANGED <<nameMappings, typeMappings, insLog, decVars, hcVars, mgrDone, logVars, ops, futVars>>

\* Insert as it would be if it gave the lock back between its two writes.
MappingInsertNameUnlocks(t) ==
    /\ th[t].pc = "mi_name"
    /\ nameMappings' = Put(nameMappings, th[t].name, th[t].typ)
    /\ mapMutex' = Unlock(mapMutex)
    /\ th' = [th EXCEPT ![t].pc = "mi_type"]
    /\ UNCHANGED <<typeMappings, insLog, decVars, hcVars, mgrDone, logVars, ops, futVars>>

\* m.nameMappings[reqName] = reqType
MappingInsertName(t) ==
    /\ th[t].pc = "mi_name"
    /\ nameMappings' = Put(nameMappings, th[t].name, th[t].typ)
    /\ th' = [th EXCEPT ![t].pc = "mi_type"]
    /\ UNCHANGED <<typeMappings, mapMutex, insLog, decVars, hcVars, mgrDone, logVars, ops, futVars>>

\* Insert as it would be without the write of typeMappings.
MappingInsertTypeSkipped(t) ==
    /\ th[t].pc = "mi_type"
    /\ mapMutex' = Unlock(mapMutex)
    /\ insLog' = Append(insLog, [name |-> th[t].name, type |-> th[t].typ])
    /\ th' = [th EXCEPT ![t] = Insert(@, "mapping")]
    /\ UNCHANGED <<nameMappings, typeMappings, decVars, hcVars, mgrDone, logVars, ops, futVars>>

\* m.typeMappings[reqType] = reqName; the deferred m.mutex.Unlock()
MappingInsertType(t) ==
    /\ th[t].pc = "mi_type"
    /\ typeMappings' = Put(typeMappings, th[t].typ, th[t].name)
    /\ mapMutex' = Unlock(mapMutex)
    /\ insLog' = Append(insLog, [name |-> th[t].name, type |-> th[t].typ])
    /\ th' = [th EXCEPT ![t] = Insert(@, "mapping")]
    /\ UNCHANGED <<nameMappings, decVars, hcVars, mgrDone, logVars, ops, futVars>>

\* The body of MappingCatalog.ByName under the read lock.
ByName(reqName) ==
    IF reqName \in DOMAIN nameMappings
    THEN [reqType |-> nameMappings[reqName], err |-> NilErr]
    ELSE [reqType |-> NilType, err |-> Errorf("for req name", <<ErrMappingMissing>>)]

\* The body of MappingCatalog.ByType under the read lock.
ByType(reqType) ==
    IF reqType \in DOMAIN typeMappings
    THEN [reqName |-> typeMappings[reqType], err |-> NilErr]
    ELSE [reqName |-> "", err |-> Errorf("for req type", <<ErrMappingMissing>>)]

CallByName(t) ==
    \E n \in Names :
        /\ Begin(t, [Idle EXCEPT !.pc = "bn_rlock", !.op = "ByName", !.name = n])
        /\ UNCHANGED <<mapVars, decVars, hcVars, mgrDone, logVars, futVars>>

\* m.mutex.RLock()
ByNameRLock(t) ==
    /\ th[t].pc = "bn_rlock"
    /\ CanRLock(mapMutex)
    /\ mapMutex' = RLock(mapMutex)
    /\ th' = [th EXCEPT ![t].pc = "bn_read"]
    /\ UNCHANGED <<nameMappings, typeMappings, insLog, decVars, hcVars, mgrDone, logVars, ops, futVars>>

\* the lookup, the deferred m.mutex.RUnlock() and the return
ByNameRead(t) ==
    /\ th[t].pc = "bn_read"
    /\ mapMutex' = RUnlock(mapMutex)
    /\ LET r == ByName(th[t].name)
           rec == [th[t] EXCEPT !.rtype = r.reqType,
                                !.full = r.reqType \in mgrDone]
       IN th' = [th EXCEPT ![t] =
                    IF rec.op = "HandleRaw"
                    THEN HandleRawByName(rec, r.reqType, r.err)
                    ELSE Finish(rec, NilVal, r.err)]
    /\ UNCHANGED <<nameMappings, typeMappings, insLog, decVars, hcVars, mgrDone, logVars, ops, futVars>>

CallByType(t) ==
    \E T \in ReqTypes :
        /\ Begin(t, [Idle EXCEPT !.pc = "bt_rlock", !.op = "ByType", !.typ = T])
        /\ UNCHANGED <<mapVars, decVars, hcVars, mgrDone, logVars, futVars>>

ByTypeRLock(t) ==
    /\ th[t].pc = "bt_rlock"
    /\ CanRLock(mapMutex)
    /\ mapMutex' = RLock(mapMutex)
    /\ th' = [th EXCEPT ![t].pc = "bt_read"]
    /\ UNCHANGED <<nameMappings, typeMappings, insLog, decVars, hcVars, mgrDone, logVars, ops, futVars>>

ByTypeRead(t) ==
    /\ th[t].pc = "bt_read"
    /\ mapMutex' = RUnlock(mapMutex)
    /\ LET r == ByType(th[t].typ) IN
        th' = [th EXCEPT ![t] = Finish([@ EXCEPT !.rname = r.reqName], NilVal, r.err)]
    /\ UNCHANGED <<nameMappings, typeMappings, insLog, decVars, hcVars, mgrDone, logVars, ops, futVars>>

\* ------------------------------------------------------- Decoder Catalog

\* Request payloads ([]byte holding JSON): an object with its fields, or bytes
\* that are no JSON document.
JSONObject(x, y) == [type |-> "bytes", kind |-> "object", argX |-> x, argY |-> y]
Malformed == [type |-> "bytes", kind |-> "malformed"]
Payloads == {JSONObject(3, 4), Malformed}
\* The payloads with nothing in them: the object {}, a []byte of length zero
\* and the nil []byte.
EmptyObject == [type |-> "bytes", kind |-> "emptyobject"]
EmptyBytes == [type |-> "bytes", kind |-> "empty"]
NilBytes == [type |-> "bytes", kind |-> "nil"]
EmptyPayloads == {EmptyObject, EmptyBytes, NilBytes}

\* json.Unmarshal as it would be if it rejected an object without members.
UnmarshalNeedsMembers(T, data) ==
    CASE data.kind = "object" ->
            [req |-> [type |-> T, ArgX |-> data.argX, ArgY |-> data.argY], err |-> NilErr]
      [] data.kind \in {"emptyobject", "empty", "nil"} ->
            [req |-> ZeroOf(T), err |-> <<"json: unexpected end of JSON input">>]
      [] OTHER -> [req |-> ZeroOf(T), err |-> <<"json: invalid character">>]

\* json.Unmarshal(data, &commandReq) into a request struct of type T, whose
\* fields ArgX and ArgY carry the tags argX and argY. An object sets the
\* fields it names and leaves the others zero; input of length zero is a
\* syntax error, as are bytes that are no JSON document.
Unmarshal(T, data) ==
    CASE data.kind = "object" ->
            [req |-> [type |-> T, ArgX |-> data.argX, ArgY |-> data.argY], err |-> NilErr]
      [] data.kind = "emptyobject" -> [req |-> ZeroOf(T), err |-> NilErr]
      [] data.kind \in {"empty", "nil"} ->
            [req |-> ZeroOf(T), err |-> <<"json: unexpected end of JSON input">>]
      [] OTHER -> [req |-> ZeroOf(T), err |-> <<"json: invalid character">>]

\* DefaultDecoder[TReq]() applied to data
DefaultDecoder(T, data) ==
    LET u == Unmarshal(T, data) IN
    IF u.err # NilErr THEN [req |-> NilVal, err |-> u.err]
    ELSE [req |-> u.req, err |-> NilErr]

\* The Decoder values the tests register: DefaultDecoder[TReq]().
DecoderFor(T) == [type |-> "Decoder", of |-> T]
Decoders == {DecoderFor(T) : T \in ReqTypes}
\* decoder(reqJSON)
CallDecoder(decoder, data) == DefaultDecoder(decoder.of, data)

\* DecoderCatalog.Insert(reqType, decoder) / InsertDecoder[TReq](catalog, decoder)
CallDecoderInsert(t) ==
    \E T \in ReqTypes, d \in Decoders :
        /\ Begin(t, [Idle EXCEPT !.pc = "di_lock", !.op = "DecoderInsert",
                                 !.typ = T, !.dec = d])
        /\ UNCHANGED <<mapVars, decVars, hcVars, mgrDone, logVars, futVars>>

\* d.mutex.Lock()
DecoderInsertLock(t) ==
    /\ th[t].pc = "di_lock"
    /\ CanLock(decMutex)
    /\ decMutex' = Lock(decMutex, t)
    /\ th' = [th EXCEPT ![t].pc = IF decMutex'.holder = t THEN "di_write" ELSE "di_wait"]
    /\ UNCHANGED <<mapVars, decoders, hcVars, mgrDone, logVars, ops, futVars>>

DecoderInsertWait(t) ==
    /\ th[t].pc = "di_wait"
    /\ CanLockPending(decMutex, t)
    /\ decMutex' = LockPending(decMutex, t)
    /\ th' = [th EXCEPT ![t].pc = "di_write"]
    /\ UNCHANGED <<mapVars, decoders, hcVars, mgrDone, logVars, ops, futVars>>

\* d.decoders[reqType] = decoder; the deferred d.mutex.Unlock()
DecoderInsertWrite(t) ==
    /\ th[t].pc = "di_write"
    /\ decoders' = Put(decoders, th[t].typ, th[t].dec)
    /\ decMutex' = Unlock(decMutex)
    /\ decLog' = Append(decLog, [type |-> th[t].typ, dec |-> th[t].dec])
    /\ th' = [th EXCEPT ![t] = Insert(@, "decoder")]
    /\ UNCHANGED <<mapVars, hcVars, mgrDone, hiLog, ops, futVars>>

\* Decode as it would be if a missing decoder were reported as a failure.
DecodeLookupFailure(rec) ==
    IF rec.typ \notin DOMAIN decoders
    THEN [found |-> FALSE, decoder |-> NilVal,
          err |-> Errorf("req type", <<ErrDecoderFailure>>)]
    ELSE [found |-> TRUE, decoder |-> decoders[rec.typ], err |-> NilErr]

\* DecoderCatalog.Decode after the lookup d.decoders[reqType]
DecodeLookup(rec) ==
    IF rec.typ \notin DOMAIN decoders
    THEN [found |-> FALSE, decoder |-> NilVal,
          err |-> Errorf("req type", <<ErrDecoderMissing>>)]
    ELSE [found |-> TRUE, decoder |-> decoders[rec.typ], err |-> NilErr]

\* DecoderCatalog.Decode from req, err = decoder(reqJSON) to its return
DecodeResult(req, err) ==
    IF req = NilVal
    THEN [req |-> NilVal, err |-> Errorf("req is nil", <<ErrDecoderFailure>>)]
    ELSE IF err # NilErr
         THEN [req |-> NilVal, err |-> Errorf("decoder failure", <<ErrDecoderFailure>> \o err)]
         ELSE [req |-> req, err |-> NilErr]

\* Decode returns (req, err) to its caller.
DecodeReturn(rec, req, err) ==
    IF rec.op = "HandleRaw" THEN HandleRawDecode(rec, req, err)
    ELSE Finish(rec, req, err)

CallDecode(t) ==
    \E T \in ReqTypes, d \in Payloads :
        /\ Begin(t, [Idle EXCEPT !.pc = "dc_rlock", !.op = "Decode",
                                 !.typ = T, !.data = d])
        /\ UNCHANGED <<mapVars, decVars, hcVars, mgrDone, logVars, futVars>>

\* DecoderCatalog.Decode(reqType, reqJSON) with a payload with nothing in it
CallDecodeEmpty(t) ==
    \E T \in ReqTypes, d \in EmptyPayloads :
        /\ Begin(t, [Idle EXCEPT !.pc = "dc_rlock", !.op = "Decode",
                                 !.typ = T, !.data = d])
        /\ UNCHANGED <<mapVars, decVars, hcVars, mgrDone, logVars, futVars>>

\* decoder := DefaultDecoder[TReq](); req, err := decoder(data)
CallDefaultDecoder(t) ==
    \E T \in ReqTypes, d \in Payloads \cup EmptyPayloads :
        /\ th[t].pc = "idle"
        /\ ops < MaxOps
        /\ ops' = ops + 1
        /\ LET r == CallDecoder(DecoderFor(T), d) IN
            th' = [th EXCEPT ![t] =
                      Finish([Idle EXCEPT !.op = "DefaultDecoder", !.typ = T,
                                          !.data = d, !.dec = DecoderFor(T)],
                             r.req, r.err)]
        /\ UNCHANGED <<mapVars, decVars, hcVars, mgrDone, logVars, futVars>>

\* d.mutex.RLock()
DecodeRLock(t) ==
    /\ th[t].pc = "dc_rlock"
    /\ CanRLock(decMutex)
    /\ decMutex' = RLock(decMutex)
    /\ th' = [th EXCEPT ![t].pc = "dc_read"]
    /\ UNCHANGED <<mapVars, decoders, hcVars, mgrDone, logVars, ops, futVars>>

\* decoder, found := d.decoders[reqType]; d.mutex.RUnlock(); the !found return
DecodeRead(t) ==
    /\ th[t].pc = "dc_read"
    /\ decMutex' = RUnlock(decMutex)
    /\ LET l == DecodeLookup(th[t]) IN
        th' = [th EXCEPT ![t] =
                  IF l.found
                  THEN [@ EXCEPT !.dec = l.decoder, !.decSeen = Len(decLog),
                                 !.pc = "dc_call"]
                  ELSE DecodeReturn([@ EXCEPT !.decSeen = Len(decLog)], NilVal, l.err)]
    /\ UNCHANGED <<mapVars, decoders, hcVars, mgrDone, logVars, ops, futVars>>

\* req, err = decoder(reqJSON) and the checks after it, outside the lock
DecodeCall(t) ==
    /\ th[t].pc = "dc_call"
    /\ LET d == CallDecoder(th[t].dec, th[t].data)
           r == DecodeResult(d.req, d.err)
       IN th' = [th EXCEPT ![t] = DecodeReturn(@, r.req, r.err)]
    /\ UNCHANGED <<mapVars, decVars, hcVars, mgrDone, logVars, ops, futVars>>

\* ----------------------------------------- Handler Adapter and Handler Catalog

\* The result type each request type is paired with by the registered handlers.
ResOf(T) == IF T = "AddCommandReq" THEN "AddCommandRes" ELSE "SubCommandRes"

Requests == {AddCommandReq(3, 4), SubCommandReq(3, 4)}

\* AddHandler.Handle / SubHandler.Handle
AddHandler(req) == AddCommandRes(req.ArgX + req.ArgY)
SubHandler(req) == SubCommandRes(req.ArgX - req.ArgY)

ErrHandlerFailed == "handler failed"

\* Handler[TReq, TRes].Handle(ctx, req): what a handler of an adapter for
\* request type T may return: its result, or the zero result and its own error.
HandlerHandle(T, req) ==
    { [res |-> IF T = "AddCommandReq" THEN AddHandler(req) ELSE SubHandler(req),
       err |-> NilErr],
      [res |-> ZeroOf(ResOf(T)), err |-> <<ErrHandlerFailed>>] }

\* The adapter as it would be if its constructor called the factory.
NewDefaultHandlerAdapterEager(T) ==
    [reqType |-> T, resType |-> ResOf(T), mutex |-> NewRWMutex,
     handler |-> 1, built |-> 1, factory |-> "handler"]

\* NewDefaultHandlerAdapter[TReq, TRes](factory). handler is 0 for nil, and
\* otherwise the number of the factory call that built the instance; built
\* counts the calls of handlerFactory; factory is what handlerFactory
\* returns, a new handler as the factories of the tests do, or nil.
NewDefaultHandlerAdapter(T) ==
    [reqType |-> T, resType |-> ResOf(T), mutex |-> NewRWMutex,
     handler |-> 0, built |-> 0, factory |-> "handler"]

\* HandlerCatalog.Insert(adapter) / InsertHandler[TReq, TRes](catalog, factory)
CallHandlerInsert(t) ==
    \E T \in ReqTypes :
        /\ Begin(t, [Idle EXCEPT !.pc = "hi_lock", !.op = "HandlerInsert", !.typ = T])
        /\ UNCHANGED <<mapVars, decVars, hcVars, mgrDone, logVars, futVars>>

\* HandlerCatalog.Insert as it would be without r.mutex.Lock().
HandlerInsertUnlocked(t) ==
    /\ th[t].pc = "hi_lock"
    /\ heap' = Append(heap, NewDefaultHandlerAdapter(th[t].typ))
    /\ th' = [th EXCEPT ![t].ad = Len(heap) + 1, ![t].pc = "hi_write"]
    /\ UNCHANGED <<mapVars, decVars, adapters, hcMutex, mgrDone, logVars, ops, futVars>>

\* NewDefaultHandlerAdapter(factory), then r.mutex.Lock()
HandlerInsertLock(t) ==
    /\ th[t].pc = "hi_lock"
    /\ CanLock(hcMutex)
    /\ hcMutex' = Lock(hcMutex, t)
    /\ heap' = Append(heap, NewDefaultHandlerAdapter(th[t].typ))
    /\ th' = [th EXCEPT ![t].ad = Len(heap) + 1,
                        ![t].pc = IF hcMutex'.holder = t THEN "hi_write" ELSE "hi_wait"]
    /\ UNCHANGED <<mapVars, decVars, adapters, mgrDone, logVars, ops, futVars>>

HandlerInsertWait(t) ==
    /\ th[t].pc = "hi_wait"
    /\ CanLockPending(hcMutex, t)
    /\ hcMutex' = LockPending(hcMutex, t)
    /\ th' = [th EXCEPT ![t].pc = "hi_write"]
    /\ UNCHANGED <<mapVars, decVars, adapters, heap, mgrDone, logVars, ops, futVars>>

\* HandlerCatalog.Insert as it would be without the write of the adapters map.
HandlerInsertWriteSkipped(t) ==
    /\ th[t].pc = "hi_write"
    /\ hcMutex' = Unlock(hcMutex)
    /\ mgrDone' = IF th[t].op = "ManagerInsert" THEN mgrDone \cup {th[t].typ} ELSE mgrDone
    /\ hiLog' = Append(hiLog, th[t].ad)
    /\ th' = [th EXCEPT ![t] = Insert(@, "handler")]
    /\ UNCHANGED <<mapVars, decVars, adapters, heap, decLog, ops, futVars>>

\* r.adapters[adapter.ReqType()] = adapter; the deferred r.mutex.Unlock()
HandlerInsertWrite(t) ==
    /\ th[t].pc = "hi_write"
    /\ adapters' = Put(adapters, heap[th[t].ad].reqType, th[t].ad)
    /\ hcMutex' = Unlock(hcMutex)
    /\ mgrDone' = IF th[t].op = "ManagerInsert" THEN mgrDone \cup {th[t].typ} ELSE mgrDone
    /\ hiLog' = Append(hiLog, th[t].ad)
    /\ th' = [th EXCEPT ![t] = Insert(@, "handler")]
    /\ UNCHANGED <<mapVars, decVars, heap, decLog, ops, futVars>>

\* Handle as it would be if the result's type were not checked.
HandleUnchecked(res, err, TRes) ==
    IF Is(err, ErrHandlerMissing)
    THEN [res |-> ZeroOf(TRes), err |-> err]
    ELSE [res |-> res, err |-> err]

\* Handle[TReq, TRes](ctx, catalog, req) after catalog.Handle returned (res, err)
Handle(res, err, TRes) ==
    IF Is(err, ErrHandlerMissing)
    THEN [res |-> ZeroOf(TRes), err |-> err]
    ELSE IF TypeOf(res) # TRes
         THEN [res |-> ZeroOf(TRes),
               err |-> Errorf("was unexpected for", <<ErrInvalidResType>>)]
         ELSE [res |-> res, err |-> err]

\* Future[TReq, TRes](ctx, catalog, req): what the function of the outer
\* future makes of the tuple (res, err) that catalog.Future(ctx, req).Wait()
\* returned, which is what catalog.Handle returned in the inner goroutine
Future(res, err, TRes) ==
    IF err # NilErr
    THEN [res |-> ZeroOf(TRes), err |-> err]
    ELSE IF TypeOf(res) # TRes
         THEN [res |-> ZeroOf(TRes),
               err |-> Errorf("was unexpected for", <<ErrInvalidResType>>)]
         ELSE [res |-> res, err |-> err]

\* HandlerCatalog.Handle as it would be if it dropped the adapter's error.
CatalogReturnDropsError(rec, res, err) ==
    Finish([rec EXCEPT !.cres = res, !.cerr = err], res, NilErr)

\* HandlerCatalog.Handle returns (res, err) to its caller: to the handler that
\* called it, which goes on in the frame of the outer call, or to the
\* operation the test goroutine started.
CatalogReturn(rec, res, err) ==
    LET r == [rec EXCEPT !.cres = res, !.cerr = err] IN
    IF rec.depth > 0
    THEN [r EXCEPT !.pc = "ah_nested", !.ad = rec.outer.ad, !.req = rec.outer.req,
                   !.depth = @ - 1, !.outer = NoFrame]
    ELSE
    CASE rec.op = "Handle" ->
            LET h == Handle(res, err, rec.tres) IN Finish(r, h.res, h.err)
      [] rec.op = "Future" ->
            LET h == Future(res, err, rec.tres) IN Finish(r, h.res, h.err)
      [] rec.op = "HandleRaw" -> HandleRawHandle(r, res, err)
      [] rec.op = "HandleReq" ->
            LET m == ManagerHandleReq(res, err) IN Finish(r, m.res, m.err)
      [] rec.op = "TypedHandleReq" ->
            LET m == ManagerHandleReq(res, err)
                h == HandleReq(m.res, m.err, rec.tres)
            IN IF h.panic THEN [r EXCEPT !.pc = "panic"] ELSE Finish(r, h.res, h.err)
      [] OTHER -> Finish(r, res, err)

\* DefaultHandlerAdapter.Handle returns (res, err): to the test goroutine, or to
\* HandlerCatalog.Handle, which still has its deferred r.mutex.RUnlock() to run.
AdapterReturn(rec, res, err) ==
    IF rec.op = "AdapterHandle" THEN Finish(rec, res, err)
    ELSE [rec EXCEPT !.cres = res, !.cerr = err, !.pc = "hh_unlock"]

\* HandlerCatalog.Handle(ctx, req)
CallCatalogHandle(t) ==
    \E q \in Requests :
        /\ Begin(t, [Idle EXCEPT !.pc = "hh_rlock", !.op = "CatalogHandle", !.req = q])
        /\ UNCHANGED <<mapVars, decVars, hcVars, mgrDone, logVars, futVars>>

\* Handle[TReq, TRes](ctx, catalog, req)
CallHandle(t) ==
    \E q \in Requests, R \in ResTypes :
        /\ Begin(t, [Idle EXCEPT !.pc = "hh_rlock", !.op = "Handle",
                                 !.req = q, !.tres = R])
        /\ UNCHANGED <<mapVars, decVars, hcVars, mgrDone, logVars, futVars>>

\* Future[TReq, TRes](ctx, catalog, req).Wait(): the goroutine of the outer
\* future calls catalog.Future(ctx, req).Wait(), the goroutine of the inner
\* future runs catalog.Handle(ctx, req), and the caller is blocked in Wait
\* until both have finished, so the three run one after another
CallFuture(t) ==
    \E q \in Requests, R \in ResTypes :
        /\ Begin(t, [Idle EXCEPT !.pc = "hh_rlock", !.op = "Future",
                                 !.req = q, !.tres = R])
        /\ UNCHANGED <<mapVars, decVars, hcVars, mgrDone, logVars, futVars>>

\* NewDefaultHandlerAdapter[TReq, TRes](factory) with a factory of the tests,
\* called by the test goroutine, which keeps the adapter
NewAdapter(t) ==
    \E T \in ReqTypes :
        /\ th[t].pc = "idle"
        /\ ops < MaxOps
        /\ ops' = ops + 1
        /\ heap' = Append(heap, NewDefaultHandlerAdapter(T))
        /\ th' = [th EXCEPT ![t] = [Idle EXCEPT !.op = "NewAdapter", !.typ = T,
                                                !.ad = Len(heap) + 1]]
        /\ UNCHANGED <<mapVars, decVars, adapters, hcMutex, mgrDone, logVars, futVars>>

\* NewDefaultHandlerAdapter[TReq, TRes](factory) with a factory that returns
\* nil, called by the test goroutine, which keeps the adapter
NewNilFactoryAdapter(t) ==
    \E T \in ReqTypes :
        /\ th[t].pc = "idle"
        /\ ops < MaxOps
        /\ ops' = ops + 1
        /\ heap' = Append(heap, [NewDefaultHandlerAdapter(T) EXCEPT !.factory = "nil"])
        /\ th' = [th EXCEPT ![t] = [Idle EXCEPT !.op = "NewAdapter", !.typ = T,
                                                !.ad = Len(heap) + 1]]
        /\ UNCHANGED <<mapVars, decVars, adapters, hcMutex, mgrDone, logVars, futVars>>

\* DefaultHandlerAdapter.Handle(ctx, req) on an adapter the test holds
CallAdapterHandle(t) ==
    \E q \in Requests, a \in 1..Len(heap) :
        /\ Begin(t, [Idle EXCEPT !.pc = "ah_check", !.op = "AdapterHandle",
                                 !.req = q, !.ad = a])
        /\ UNCHANGED <<mapVars, decVars, hcVars, mgrDone, logVars, futVars>>

\* HandlerCatalog.Handle as it would be if it took the catalog's write lock.
CatalogHandleLockExclusive(t) ==
    /\ th[t].pc = "hh_rlock"
    /\ CanRLock(hcMutex)
    /\ hcMutex.readers = 0
    /\ hcMutex' = RLock([hcMutex EXCEPT !.holder = t])
    /\ th' = [th EXCEPT ![t].pc = "hh_lookup"]
    /\ UNCHANGED <<mapVars, decVars, adapters, heap, mgrDone, logVars, ops, futVars>>

\* r.mutex.RLock()
CatalogHandleRLock(t) ==
    /\ th[t].pc = "hh_rlock"
    /\ CanRLock(hcMutex)
    /\ hcMutex' = RLock(hcMutex)
    /\ th' = [th EXCEPT ![t].pc = "hh_lookup"]
    /\ UNCHANGED <<mapVars, decVars, adapters, heap, mgrDone, logVars, ops, futVars>>

\* HandlerCatalog.Handle: the lookup r.adapters[reflect.TypeOf(req)]
CatalogLookup(req) ==
    IF TypeOf(req) \in DOMAIN adapters
    THEN [found |-> TRUE, adapter |-> adapters[TypeOf(req)], err |-> NilErr]
    ELSE [found |-> FALSE, adapter |-> 0,
          err |-> Errorf("for req type", <<ErrHandlerMissing>>)]

\* adapter, found := r.adapters[reqType]; when not found, the return with the
\* deferred r.mutex.RUnlock(); otherwise adapter.Handle(ctx, req) is entered
CatalogHandleLookup(t) ==
    /\ th[t].pc = "hh_lookup"
    /\ LET l == CatalogLookup(th[t].req) IN
        IF l.found
        THEN /\ th' = [th EXCEPT ![t].ad = l.adapter, ![t].hiSeen = Len(hiLog),
                                 ![t].pc = "ah_check"]
             /\ UNCHANGED hcMutex
        ELSE /\ th' = [th EXCEPT ![t] =
                          CatalogReturn([@ EXCEPT !.hiSeen = Len(hiLog)], NilVal, l.err)]
             /\ hcMutex' = RUnlock(hcMutex)
    /\ UNCHANGED <<mapVars, decVars, adapters, heap, mgrDone, logVars, ops, futVars>>

\* DefaultHandlerAdapter.Handle: typedReq, ok := req.(TReq) and the !ok return
AdapterCheck(a, req) ==
    IF TypeOf(req) = a.reqType
    THEN [ok |-> TRUE, err |-> NilErr]
    ELSE [ok |-> FALSE, err |-> ErrorfPlain("req type does not match")]

AdapterHandleCheck(t) ==
    /\ th[t].pc = "ah_check"
    /\ LET c == AdapterCheck(heap[th[t].ad], th[t].req) IN
        th' = [th EXCEPT ![t] =
                  IF c.ok THEN [@ EXCEPT !.pc = "ah_rlock"]
                  ELSE AdapterReturn(@, NilVal, c.err)]
    /\ UNCHANGED <<mapVars, decVars, hcVars, mgrDone, logVars, ops, futVars>>

\* a.mutex.RLock()
AdapterHandleRLock(t) ==
    /\ th[t].pc = "ah_rlock"
    /\ CanRLock(heap[th[t].ad].mutex)
    /\ heap' = [heap EXCEPT ![th[t].ad].mutex = RLock(@)]
    /\ th' = [th EXCEPT ![t].pc = "ah_read"]
    /\ UNCHANGED <<mapVars, decVars, adapters, hcMutex, mgrDone, logVars, ops, futVars>>

\* handler := a.handler; a.mutex.RUnlock(); if handler == nil
AdapterHandleRead(t) ==
    /\ th[t].pc = "ah_read"
    /\ heap' = [heap EXCEPT ![th[t].ad].mutex = RUnlock(@)]
    /\ th' = [th EXCEPT ![t].handler = heap[th[t].ad].handler,
                        ![t].pc = IF heap[th[t].ad].handler = 0
                                  THEN "ah_lock" ELSE "ah_call"]
    /\ UNCHANGED <<mapVars, decVars, adapters, hcMutex, mgrDone, logVars, ops, futVars>>

\* a.mutex.Lock()
AdapterHandleLock(t) ==
    /\ th[t].pc = "ah_lock"
    /\ CanLock(heap[th[t].ad].mutex)
    /\ heap' = [heap EXCEPT ![th[t].ad].mutex = Lock(@, t)]
    /\ th' = [th EXCEPT ![t].pc = IF heap'[th[t].ad].mutex.holder = t
                                  THEN "ah_build" ELSE "ah_wait"]
    /\ UNCHANGED <<mapVars, decVars, adapters, hcMutex, mgrDone, logVars, ops, futVars>>

AdapterHandleWait(t) ==
    /\ th[t].pc = "ah_wait"
    /\ CanLockPending(heap[th[t].ad].mutex, t)
    /\ heap' = [heap EXCEPT ![th[t].ad].mutex = LockPending(@, t)]
    /\ th' = [th EXCEPT ![t].pc = "ah_build"]
    /\ UNCHANGED <<mapVars, decVars, adapters, hcMutex, mgrDone, logVars, ops, futVars>>

\* The construction as it would be without the second check under the lock.
ConstructUnchecked(a) ==
    [a EXCEPT !.handler = a.built + 1, !.built = a.built + 1]

\* The construction as it would be if the factory were called once only,
\* whatever it returned.
ConstructOnce(a) ==
    IF a.handler = 0 /\ a.built = 0
    THEN [a EXCEPT !.handler = IF a.factory = "nil" THEN 0 ELSE a.built + 1,
                   !.built = a.built + 1]
    ELSE a

\* if a.handler == nil { a.handler = a.handlerFactory() }
Construct(a) ==
    IF a.handler = 0
    THEN [a EXCEPT !.handler = IF a.factory = "nil" THEN 0 ELSE a.built + 1,
                   !.built = a.built + 1]
    ELSE a

\* the construction under the lock, and the deferred a.mutex.Unlock()
AdapterHandleBuild(t) ==
    /\ th[t].pc = "ah_build"
    /\ heap' = [heap EXCEPT ![th[t].ad] = [Construct(@) EXCEPT !.mutex = Unlock(@)]]
    /\ th' = [th EXCEPT ![t].pc = "ah_reread"]
    /\ UNCHANGED <<mapVars, decVars, adapters, hcMutex, mgrDone, logVars, ops, futVars>>

\* handler = a.handler, read after the lock was released
AdapterHandleReread(t) ==
    /\ th[t].pc = "ah_reread"
    /\ th' = [th EXCEPT ![t].handler = heap[th[t].ad].handler, ![t].pc = "ah_call"]
    /\ UNCHANGED <<mapVars, decVars, hcVars, mgrDone, logVars, ops, futVars>>

\* if handler == nil { return ErrHandlerMissing }; return handler.Handle(ctx, typedReq)
AdapterHandleCall(t) ==
    /\ th[t].pc = "ah_call"
    /\ IF th[t].handler = 0
       THEN th' = [th EXCEPT ![t] = AdapterReturn(@, NilVal,
                                        Errorf("for req type", <<ErrHandlerMissing>>))]
       ELSE \E o \in HandlerHandle(heap[th[t].ad].reqType, th[t].req) :
                th' = [th EXCEPT ![t] =
                          AdapterReturn([@ EXCEPT !.called = TRUE, !.hres = o.res,
                                                  !.herr = o.err,
                                                  !.calls = @ + 1], o.res, o.err)]
    /\ UNCHANGED <<mapVars, decVars, hcVars, mgrDone, logVars, ops, futVars>>

\* return handler.Handle(ctx, typedReq) with a handler that takes its time,
\* as the SlowHandler of the tests does: the goroutine enters the handler
AdapterHandleEnter(t) ==
    /\ th[t].pc = "ah_call"
    /\ th[t].handler # 0
    /\ th' = [th EXCEPT ![t].pc = "ah_inside",
                        ![t].inside = Cardinality({u \in Threads \ {t} :
                                            th[u].pc = "ah_inside" /\ th[u].ad = th[t].ad})]
    /\ UNCHANGED <<mapVars, decVars, hcVars, mgrDone, logVars, ops, futVars>>

\* the handler returns, and DefaultHandlerAdapter.Handle with it
AdapterHandleLeave(t) ==
    /\ th[t].pc = "ah_inside"
    /\ \E o \in HandlerHandle(heap[th[t].ad].reqType, th[t].req) :
            th' = [th EXCEPT ![t] =
                      AdapterReturn([@ EXCEPT !.called = TRUE, !.hres = o.res,
                                              !.herr = o.err,
                                              !.calls = @ + 1], o.res, o.err)]
    /\ UNCHANGED <<mapVars, decVars, hcVars, mgrDone, logVars, ops, futVars>>

\* return handler.Handle(ctx, typedReq) with a handler that dispatches another
\* request through the same catalog: inside the handler, the goroutine calls
\* catalog.Handle(ctx, q), while the outer HandlerCatalog.Handle still holds
\* its read lock
NestingHandlerEnter(t) ==
    /\ th[t].pc = "ah_call"
    /\ th[t].handler # 0
    /\ th[t].op = "CatalogHandle"
    /\ th[t].depth = 0
    /\ \E q \in Requests :
            th' = [th EXCEPT ![t].pc = "hh_rlock", ![t].depth = 1,
                             ![t].outer = [ad |-> th[t].ad, req |-> th[t].req],
                             ![t].req = q, ![t].ad = 0]
    /\ UNCHANGED <<mapVars, decVars, hcVars, mgrDone, logVars, ops, futVars>>

\* the inner catalog.Handle has returned; the handler returns what it got,
\* and DefaultHandlerAdapter.Handle with it
NestingHandlerLeave(t) ==
    /\ th[t].pc = "ah_nested"
    /\ LET r == th[t] IN
        th' = [th EXCEPT ![t] =
                  AdapterReturn([r EXCEPT !.called = TRUE, !.hres = r.cres,
                                          !.herr = r.cerr, !.calls = @ + 1],
                                r.cres, r.cerr)]
    /\ UNCHANGED <<mapVars, decVars, hcVars, mgrDone, logVars, ops, futVars>>

\* HandlerCatalog.Handle: the deferred r.mutex.RUnlock() and the return
CatalogHandleUnlock(t) ==
    /\ th[t].pc = "hh_unlock"
    /\ hcMutex' = RUnlock(hcMutex)
    /\ th' = [th EXCEPT ![t] = CatalogReturn(@, @.cres, @.cerr)]
    /\ UNCHANGED <<mapVars, decVars, adapters, heap, mgrDone, logVars, ops, futVars>>

\* HandlerCatalog.TypeMap()
CallTypeMap(t) ==
    /\ Begin(t, [Idle EXCEPT !.pc = "tm_rlock", !.op = "TypeMap"])
    /\ UNCHANGED <<mapVars, decVars, hcVars, mgrDone, logVars, futVars>>

\* r.mutex.RLock()
TypeMapRLock(t) ==
    /\ th[t].pc = "tm_rlock"
    /\ CanRLock(hcMutex)
    /\ hcMutex' = RLock(hcMutex)
    /\ th' = [th EXCEPT ![t].pc = "tm_read"]
    /\ UNCHANGED <<mapVars, decVars, adapters, heap, mgrDone, logVars, ops, futVars>>

\* TypeMap as it would be if it paired each request type with itself.
TypeMapOfKeys == [reqType \in DOMAIN adapters |-> reqType]

\* for reqType, adapter := range r.adapters { typeMap[reqType] = adapter.ResType() }
TypeMap == [reqType \in DOMAIN adapters |-> heap[adapters[reqType]].resType]

\* the loop over r.adapters, the deferred r.mutex.RUnlock() and the return
TypeMapRead(t) ==
    /\ th[t].pc = "tm_read"
    /\ hcMutex' = RUnlock(hcMutex)
    /\ th' = [th EXCEPT ![t] = [@ EXCEPT !.typeMap = TypeMap, !.hiSeen = Len(hiLog),
                                         !.pc = "idle"]]
    /\ UNCHANGED <<mapVars, decVars, adapters, heap, mgrDone, logVars, ops, futVars>>

\* ------------------------------------------------------- Manager operations

\* Insert[TReq, TRes](manager, reqName, DefaultDecoder[TReq](), factory)
CallManagerInsert(t) ==
    \E n \in Names, T \in ReqTypes :
        /\ Begin(t, [Idle EXCEPT !.pc = "mi_lock", !.op = "ManagerInsert",
                                 !.name = n, !.typ = T, !.dec = DecoderFor(T)])
        /\ UNCHANGED <<mapVars, decVars, hcVars, mgrDone, logVars, futVars>>

\* manager.HandleRaw(reqName, reqJSON, ctx)
CallHandleRaw(t) ==
    \E n \in Names, d \in Payloads :
        /\ Begin(t, [Idle EXCEPT !.pc = "bn_rlock", !.op = "HandleRaw",
                                 !.name = n, !.data = d])
        /\ UNCHANGED <<mapVars, decVars, hcVars, mgrDone, logVars, futVars>>

\* manager.HandleReq(req, ctx)
CallHandleReq(t) ==
    \E q \in Requests :
        /\ Begin(t, [Idle EXCEPT !.pc = "hh_rlock", !.op = "HandleReq", !.req = q])
        /\ UNCHANGED <<mapVars, decVars, hcVars, mgrDone, logVars, futVars>>

\* HandleReq[TReq, TRes](manager, req, ctx)
CallTypedHandleReq(t) ==
    \E q \in Requests, R \in ResTypes :
        /\ Begin(t, [Idle EXCEPT !.pc = "hh_rlock", !.op = "TypedHandleReq",
                                 !.req = q, !.tres = R])
        /\ UNCHANGED <<mapVars, decVars, hcVars, mgrDone, logVars, futVars>>

\* ------------------------------------------------------------------ futures

\* The values the wrapped functions of the tests return, and the zero string.
Result1 == [type |-> "string", val |-> "result 1"]
Result2 == [type |-> "string", val |-> "result 2"]
ZeroString == [type |-> "string", val |-> ""]
Result3 == [type |-> "string", val |-> "result 3"]

\* future[R]{} after f.waitGroup.Add(1), with the goroutine Start spawns: fn
\* is the value the wrapped function returns, waitGroup the WaitGroup's
\* counter, wpc the goroutine's position, runs counts the calls of fn.
\* The other fields belong to the functions the package itself wraps: kind
\* names the function, sleep is the time its Sleep calls take in all, in are
\* the input futures, r, cur, ch and visited (the keys a range statement has
\* been through, in order) the function's locals, obs the observer
\* goroutines of RaceAll, waits counts the Wait calls the function has made,
\* born and at are the times of Start and of Done, nth is the future's place
\* in the order in which the futures completed.
FutureFields(v, start) ==
    [result |-> ZeroString, waitGroup |-> 1, fn |-> v, wpc |-> start, runs |-> 0,
     kind |-> "fn", sleep |-> 0, in |-> << >>, r |-> << >>, cur |-> 0,
     ch |-> << >>, visited |-> << >>, obs |-> << >>, waits |-> 0, born |-> now, at |-> 0, nth |-> 0]

\* Start as it would be if it left the function to be run by the first Wait.
NewFutureNotStarted(v) == FutureFields(v, "lazy")

NewFuture(v) == FutureFields(v, "run")

\* Start(ctx, fn) for the functions of this package: the goroutine of the new
\* future f runs from f.wpc on.
Spawn(t, op, f) ==
    /\ th[t].pc = "idle"
    /\ ops < MaxOps
    /\ ops' = ops + 1
    /\ futures' = Append(futures, f)
    /\ th' = [th EXCEPT ![t] = [Idle EXCEPT !.op = op, !.fut = Len(futures) + 1]]
    /\ UNCHANGED <<mapVars, decVars, hcVars, mgrDone, logVars, waitLog, now>>

\* Start(ctx, fn): f := future[R]{}; f.waitGroup.Add(1); go func() {...}(); return &f
Start(t) ==
    \E v \in {Result1, Result2} :
        /\ th[t].pc = "idle"
        /\ ops < MaxOps
        /\ ops' = ops + 1
        /\ futures' = Append(futures, NewFuture(v))
        /\ th' = [th EXCEPT ![t] = [Idle EXCEPT !.op = "Start", !.fut = Len(futures) + 1]]
        /\ UNCHANGED <<mapVars, decVars, hcVars, mgrDone, logVars, waitLog, now>>

\* A function of the tests is inside its time.Sleep calls.
Sleeping(f) == futures[f].wpc = "run" /\ now < futures[f].born + futures[f].sleep

\* Start as it would be if the functions were run one after another, each
\* started when the one before it has returned.
FutureRunSerial(f) ==
    /\ futures[f].wpc = "run"
    /\ \A g \in 1..(f - 1) : futures[g].wpc # "run"
    /\ \A g \in 1..(f - 1) : now >= futures[g].at + futures[f].sleep
    /\ ~Sleeping(f)
    /\ futures' = [futures EXCEPT ![f].result = futures[f].fn, ![f].runs = @ + 1,
                                  ![f].wpc = "done"]
    /\ UNCHANGED <<mapVars, decVars, hcVars, mgrDone, logVars, waitLog, now, th, ops>>

\* Value(value): Start with the function that returns value
Value(t) ==
    Spawn(t, "Value", [NewFuture(Result3) EXCEPT !.kind = "Value"])

\* The spawned goroutine: f.result = fn(ctx)
FutureRun(f) ==
    /\ futures[f].wpc = "run"
    /\ ~Sleeping(f)
    /\ futures' = [futures EXCEPT ![f].result = futures[f].fn, ![f].runs = @ + 1,
                                  ![f].wpc = "done"]
    /\ UNCHANGED <<mapVars, decVars, hcVars, mgrDone, logVars, waitLog, now, th, ops>>

\* The spawned goroutine: the deferred f.waitGroup.Done()
FutureDone(f) ==
    /\ futures[f].wpc = "done"
    /\ futures' = [futures EXCEPT ![f].waitGroup = @ - 1, ![f].wpc = "exit",
                                  ![f].at = now,
                                  ![f].nth = 1 + Cardinality({g \in 1..Len(futures) :
                                                    futures[g].waitGroup = 0})]
    /\ UNCHANGED <<mapVars, decVars, hcVars, mgrDone, logVars, waitLog, now, th, ops>>

\* f.Wait() on a future some Start returned
CallWait(t) ==
    \E f \in 1..Len(futures) :
        /\ Begin(t, [Idle EXCEPT !.pc = "fw_wait", !.op = "Wait", !.fut = f])
        /\ UNCHANGED <<mapVars, decVars, hcVars, mgrDone, logVars, futVars>>

\* Wait as it would be without f.waitGroup.Wait().
WaitUnblocked(t) ==
    /\ th[t].pc = "fw_wait"
    /\ th' = [th EXCEPT ![t].pc = "fw_read"]
    /\ UNCHANGED <<mapVars, decVars, hcVars, mgrDone, logVars, futVars, ops>>

\* f.waitGroup.Wait(): returns once the counter is zero
Wait(t) ==
    /\ th[t].pc = "fw_wait"
    /\ futures[th[t].fut].waitGroup = 0
    /\ th' = [th EXCEPT ![t].pc = "fw_read"]
    /\ UNCHANGED <<mapVars, decVars, hcVars, mgrDone, logVars, futVars, ops>>

\* Wait as it would be if it ran the wrapped function again for its value.
WaitResultReruns(t) ==
    /\ th[t].pc = "fw_read"
    /\ futures' = [futures EXCEPT ![th[t].fut].runs = @ + 1]
    /\ waitLog' = Append(waitLog, [fut |-> th[t].fut, val |-> futures[th[t].fut].fn])
    /\ th' = [th EXCEPT ![t] = Finish(@, futures[th[t].fut].fn, NilErr)]
    /\ UNCHANGED <<mapVars, decVars, hcVars, mgrDone, logVars, now, ops>>

\* return f.result
WaitResult(t) ==
    /\ th[t].pc = "fw_read"
    /\ waitLog' = Append(waitLog, [fut |-> th[t].fut, val |-> futures[th[t].fut].result])
    /\ th' = [th EXCEPT ![t] = Finish(@, futures[th[t].fut].result, NilErr)]
    /\ UNCHANGED <<mapVars, decVars, hcVars, mgrDone, logVars, futures, now, ops>>

\* ------------------------------------------------- futures: combinators

\* The elements of a sequence.
Range(seq) == {seq[i] : i \in 1..Len(seq)}

\* The goroutine of a test function, which makes all the futures of the test.
TestGoroutine == "g1"

\* The futures of strings there are: what Start and Value returned.
StringFutures == {f \in 1..Len(futures) : futures[f].kind \in {"fn", "Value"}}

\* Start(ctx, fn) with a function of the tests that sleeps d times 100ms and
\* then returns its value.
StartSleep(t) ==
    \E d \in 1..MaxSleep :
        Spawn(t, "Start", [NewFuture(Result1) EXCEPT !.sleep = d])

\* Start(ctx, fn) with a function that never returns (it blocks for ever, as
\* on a channel nobody sends to): the goroutine stays inside fn and the
\* deferred f.waitGroup.Done() never runs.
StartBlocked(t) ==
    Spawn(t, "Start", [NewFuture(Result2) EXCEPT !.wpc = "blocked"])

\* The argument lists futures ...Future[string]: any futures, in any order,
\* possibly repeated.
FutureLists ==
    UNION {[1..n -> StringFutures] : n \in 0..Cardinality(StringFutures)}

\* The keys of the tests' maps, and the arguments m map[string]Future[string].
Keys == {"fut1", "fut2"}
FutureMaps == UNION {[K -> StringFutures] : K \in SUBSET Keys}

\* WaitAll(futures...): Start with the function that waits for each input in
\* turn; r := make([]R, len(futures)) is the function's first statement. The
\* new future's result is the zero value of []R, the nil slice.
WaitAll(t) ==
    \E ins \in FutureLists :
        Spawn(t, "WaitAll",
              [FutureFields(NilVal, "wa_loop") EXCEPT
                    !.kind = "WaitAll", !.result = << >>, !.in = ins,
                    !.r = [i \in 1..Len(ins) |-> ZeroString], !.cur = 1])

\* WaitAll as it would be if it read each input's result without waiting.
WaitAllLoopUnblocked(f) ==
    /\ futures[f].wpc = "wa_loop"
    /\ futures[f].cur <= Len(futures[f].in)
    /\ futures' = [futures EXCEPT
            ![f].r = [@ EXCEPT ![futures[f].cur] =
                            futures[futures[f].in[futures[f].cur]].result],
            ![f].cur = @ + 1,
            ![f].waits = @ + 1]
    /\ UNCHANGED <<mapVars, decVars, hcVars, mgrDone, logVars, waitLog, now, th, ops>>

\* for i, f := range futures { r[i] = f.Wait() }: one iteration, which blocks
\* until the i-th input's WaitGroup counter is zero
WaitAllLoop(f) ==
    /\ futures[f].wpc = "wa_loop"
    /\ futures[f].cur <= Len(futures[f].in)
    /\ futures[futures[f].in[futures[f].cur]].waitGroup = 0
    /\ futures' = [futures EXCEPT
            ![f].r = [@ EXCEPT ![futures[f].cur] =
                            futures[futures[f].in[futures[f].cur]].result],
            ![f].cur = @ + 1,
            ![f].waits = @ + 1]
    /\ UNCHANGED <<mapVars, decVars, hcVars, mgrDone, logVars, waitLog, now, th, ops>>

\* WaitAll as it would be if it returned the results in the order in which
\* the inputs completed.
WaitAllReturnByCompletion(f) ==
    /\ futures[f].wpc = "wa_loop"
    /\ futures[f].cur > Len(futures[f].in)
    /\ LET n == Len(futures[f].in)
           order == SortSeq([i \in 1..n |-> i],
                            LAMBDA a, b : futures[futures[f].in[a]].nth
                                            < futures[futures[f].in[b]].nth)
       IN futures' = [futures EXCEPT
                ![f].result = [k \in 1..n |-> futures[f].r[order[k]]],
                ![f].runs = @ + 1, ![f].wpc = "done"]
    /\ UNCHANGED <<mapVars, decVars, hcVars, mgrDone, logVars, waitLog, now, th, ops>>

\* return r, stored by the goroutine of Start: f.result = fn(ctx)
WaitAllReturn(f) ==
    /\ futures[f].wpc = "wa_loop"
    /\ futures[f].cur > Len(futures[f].in)
    /\ futures' = [futures EXCEPT ![f].result = futures[f].r,
                                  ![f].runs = @ + 1, ![f].wpc = "done"]
    /\ UNCHANGED <<mapVars, decVars, hcVars, mgrDone, logVars, waitLog, now, th, ops>>

\* WaitAllMap(m): Start with the function that waits for the input of each
\* key; r := make(map[K]R, len(m)) is the function's first statement.
WaitAllMap(t) ==
    \E m \in FutureMaps :
        Spawn(t, "WaitAllMap",
              [FutureFields(NilVal, "wm_range") EXCEPT
                    !.kind = "WaitAllMap", !.result = NilVal, !.in = m,
                    !.r = << >>, !.cur = ""])

\* for k, f := range m: the next key, which is any key not yet visited
WaitAllMapRange(f) ==
    /\ futures[f].wpc = "wm_range"
    /\ \E k \in (DOMAIN futures[f].in) \ Range(futures[f].visited) :
            futures' = [futures EXCEPT ![f].cur = k, ![f].wpc = "wm_loop",
                                      ![f].visited = Append(@, k)]
    /\ UNCHANGED <<mapVars, decVars, hcVars, mgrDone, logVars, waitLog, now, th, ops>>

\* WaitAllMap as it would be if it filled the keys in one fixed order while
\* it ranged over the map in another.
WaitAllMapLoopFixedOrder(f) ==
    /\ futures[f].wpc = "wm_loop"
    /\ futures[futures[f].in[futures[f].cur]].waitGroup = 0
    /\ futures' = [futures EXCEPT
            ![f].r = Put(@, CHOOSE k \in (DOMAIN futures[f].in) \ (DOMAIN @) : TRUE,
                         futures[futures[f].in[futures[f].cur]].result),
            ![f].waits = @ + 1,
            ![f].wpc = "wm_range"]
    /\ UNCHANGED <<mapVars, decVars, hcVars, mgrDone, logVars, waitLog, now, th, ops>>

\* r[k] = f.Wait(): blocks until the input's WaitGroup counter is zero
WaitAllMapLoop(f) ==
    /\ futures[f].wpc = "wm_loop"
    /\ futures[futures[f].in[futures[f].cur]].waitGroup = 0
    /\ futures' = [futures EXCEPT
            ![f].r = Put(@, futures[f].cur,
                         futures[futures[f].in[futures[f].cur]].result),
            ![f].waits = @ + 1,
            ![f].wpc = "wm_range"]
    /\ UNCHANGED <<mapVars, decVars, hcVars, mgrDone, logVars, waitLog, now, th, ops>>

\* WaitAllMap as it would be if its function returned only after some Wait.
WaitAllMapReturnNeedsInput(f) ==
    /\ futures[f].wpc = "wm_range"
    /\ futures[f].waits > 0
    /\ DOMAIN futures[f].in = Range(futures[f].visited)
    /\ futures' = [futures EXCEPT ![f].result = futures[f].r,
                                  ![f].runs = @ + 1, ![f].wpc = "done"]
    /\ UNCHANGED <<mapVars, decVars, hcVars, mgrDone, logVars, waitLog, now, th, ops>>

\* return r, stored by the goroutine of Start: f.result = fn(ctx)
WaitAllMapReturn(f) ==
    /\ futures[f].wpc = "wm_range"
    /\ DOMAIN futures[f].in = Range(futures[f].visited)
    /\ futures' = [futures EXCEPT ![f].result = futures[f].r,
                                  ![f].runs = @ + 1, ![f].wpc = "done"]
    /\ UNCHANGED <<mapVars, decVars, hcVars, mgrDone, logVars, waitLog, now, th, ops>>

\* The channel as it would be made without a buffer.
ChanCapUnbuffered(n) == 0

\* ch := make(chan R, len(futures)): the capacity of the completion channel
ChanCap(n) == n

\* An observer goroutine of RaceAll before futures[i_].Wait() has returned.
NewObserver == [pc |-> "wait", val |-> ZeroString]

\* RaceAll as it would be without the test for an empty argument list.
RaceAllFutureAlwaysRaces(ins) ==
    [FutureFields(NilVal, "ra_spawn") EXCEPT !.kind = "RaceAll", !.in = ins]

\* The future RaceAll(futures...) returns: Value(*new(R)) for no inputs, and
\* for some inputs Start with the function that makes the channel, spawns one
\* observer per input and receives once.
RaceAllFuture(ins) ==
    IF Len(ins) = 0
    THEN [NewFuture(ZeroString) EXCEPT !.kind = "Value"]
    ELSE [FutureFields(NilVal, "ra_spawn") EXCEPT !.kind = "RaceAll", !.in = ins]

\* The argument lists of RaceAll: any futures, in any order, each once.
RaceLists ==
    {ins \in FutureLists :
        \A i, j \in 1..Len(ins) : ins[i] = ins[j] => i = j}

\* RaceAll(futures...)
RaceAll(t) ==
    \E ins \in RaceLists : Spawn(t, "RaceAll", RaceAllFuture(ins))

\* ch := make(chan R, len(futures)) and the loop for i := 0; i < len(futures);
\* i++ { i_ := i; go func() {...}() }, which spawns one observer per input and
\* blocks nowhere
RaceAllSpawn(f) ==
    /\ futures[f].wpc = "ra_spawn"
    /\ futures' = [futures EXCEPT
            ![f].obs = [i \in 1..Len(futures[f].in) |-> NewObserver],
            ![f].wpc = "ra_receive"]
    /\ UNCHANGED <<mapVars, decVars, hcVars, mgrDone, logVars, waitLog, now, th, ops>>

\* The observer as it would be if it read the input's result without waiting.
ObserverWaitUnblocked(f, i) ==
    /\ futures[f].obs[i].pc = "wait"
    /\ futures' = [futures EXCEPT
            ![f].obs[i] = [pc |-> "send", val |-> futures[futures[f].in[i]].result]]
    /\ UNCHANGED <<mapVars, decVars, hcVars, mgrDone, logVars, waitLog, now, th, ops>>

\* The observer of the i-th input: futures[i_].Wait() returns
ObserverWait(f, i) ==
    /\ futures[f].obs[i].pc = "wait"
    /\ futures[futures[f].in[i]].waitGroup = 0
    /\ futures' = [futures EXCEPT
            ![f].obs[i] = [pc |-> "send", val |-> futures[futures[f].in[i]].result]]
    /\ UNCHANGED <<mapVars, decVars, hcVars, mgrDone, logVars, waitLog, now, th, ops>>

\* The observer of the i-th input: ch <- value, which blocks while the
\* channel's buffer is full; then the observer ends
ObserverSend(f, i) ==
    /\ futures[f].obs[i].pc = "send"
    /\ Len(futures[f].ch) < ChanCap(Len(futures[f].in))
    /\ futures' = [futures EXCEPT
            ![f].ch = Append(@, [from |-> i, val |-> futures[f].obs[i].val]),
            ![f].obs[i].pc = "exit"]
    /\ UNCHANGED <<mapVars, decVars, hcVars, mgrDone, logVars, waitLog, now, th, ops>>

\* RaceAll as it would be if it received only when every observer has sent.
RaceAllReceiveAfterAll(f) ==
    /\ futures[f].wpc = "ra_receive"
    /\ Len(futures[f].ch) = Len(futures[f].in)
    /\ futures' = [futures EXCEPT ![f].result = Head(futures[f].ch).val,
                                  ![f].cur = Head(futures[f].ch).from,
                                  ![f].ch = Tail(@),
                                  ![f].runs = @ + 1, ![f].wpc = "done"]
    /\ UNCHANGED <<mapVars, decVars, hcVars, mgrDone, logVars, waitLog, now, th, ops>>

\* return <-ch, stored by the goroutine of Start: f.result = fn(ctx). cur
\* keeps the place in the input list of the observer whose value was received.
RaceAllReceive(f) ==
    /\ futures[f].wpc = "ra_receive"
    /\ Len(futures[f].ch) > 0
    /\ futures' = [futures EXCEPT ![f].result = Head(futures[f].ch).val,
                                  ![f].cur = Head(futures[f].ch).from,
                                  ![f].ch = Tail(@),
                                  ![f].runs = @ + 1, ![f].wpc = "done"]
    /\ UNCHANGED <<mapVars, decVars, hcVars, mgrDone, logVars, waitLog, now, th, ops>>

\* A step of an observer goroutine of the f-th future.
ObserverStep(f) ==
    \E i \in 1..Len(futures[f].obs) : ObserverWait(f, i) \/ ObserverSend(f, i)

\* A step of the goroutine of the f-th future.
GoStep(f) ==
    \/ FutureRun(f)
    \/ FutureDone(f)
    \/ WaitAllLoop(f)
    \/ WaitAllReturn(f)
    \/ WaitAllMapRange(f)
    \/ WaitAllMapLoop(f)
    \/ WaitAllMapReturn(f)
    \/ RaceAllSpawn(f)
    \/ RaceAllReceive(f)
    \/ ObserverStep(f)

\* 100ms pass. The statements of the goroutines take no time: the clock moves
\* only when some function is inside time.Sleep and every goroutine is
\* asleep, blocked or finished.
Tick ==
    /\ \E f \in 1..Len(futures) : Sleeping(f)
    /\ \A f \in 1..Len(futures) : ~ENABLED GoStep(f)
    /\ now' = now + 1
    /\ UNCHANGED <<mapVars, decVars, hcVars, mgrDone, logVars, futures, waitLog, th, ops>>

\* ------------------------------------------------------- specifications

MappingSteps(t) ==
    \/ MappingInsertLock(t)
    \/ MappingInsertWait(t)
    \/ MappingInsertName(t)
    \/ MappingInsertType(t)
    \/ ByNameRLock(t)
    \/ ByNameRead(t)

DecoderSteps(t) ==
    \/ DecoderInsertLock(t)
    \/ DecoderInsertWait(t)
    \/ DecoderInsertWrite(t)
    \/ DecodeRLock(t)
    \/ DecodeRead(t)
    \/ DecodeCall(t)

HandlerSteps(t) ==
    \/ HandlerInsertLock(t)
    \/ HandlerInsertWait(t)
    \/ HandlerInsertWrite(t)
    \/ CatalogHandleRLock(t)
    \/ CatalogHandleLookup(t)
    \/ AdapterHandleCheck(t)
    \/ AdapterHandleRLock(t)
    \/ AdapterHandleRead(t)
    \/ AdapterHandleLock(t)
    \/ AdapterHandleWait(t)
    \/ AdapterHandleBuild(t)
    \/ AdapterHandleReread(t)
    \/ AdapterHandleCall(t)
    \/ CatalogHandleUnlock(t)

\* The Mapping Catalog alone: goroutines insert and look up concurrently.
NextMapping ==
    \E t \in Threads :
        \/ CallMappingInsert(t)
        \/ CallByName(t)
        \/ CallByType(t)
        \/ MappingSteps(t)
        \/ ByTypeRLock(t)
        \/ ByTypeRead(t)

SpecMapping == Init /\ [][NextMapping]_vars

\* The Handler Catalog and its adapters.
NextHandler ==
    \E t \in Threads :
        \/ CallHandlerInsert(t)
        \/ CallCatalogHandle(t)
        \/ CallHandle(t)
        \/ CallAdapterHandle(t)
        \/ HandlerSteps(t)

SpecHandler == Init /\ [][NextHandler]_vars

\* The Manager: registration and raw dispatch through the three catalogs.
NextManager ==
    \E t \in Threads :
        \/ CallManagerInsert(t)
        \/ CallHandleRaw(t)
        \/ MappingSteps(t)
        \/ DecoderSteps(t)
        \/ HandlerSteps(t)

SpecManager == Init /\ [][NextManager]_vars

\* The three catalogs used directly.
NextCatalogs ==
    \E t \in Threads :
        \/ CallMappingInsert(t)
        \/ CallByName(t)
        \/ CallByType(t)
        \/ CallDecoderInsert(t)
        \/ CallDecode(t)
        \/ CallHandlerInsert(t)
        \/ CallCatalogHandle(t)
        \/ MappingSteps(t)
        \/ ByTypeRLock(t)
        \/ ByTypeRead(t)
        \/ DecoderSteps(t)
        \/ HandlerSteps(t)

SpecCatalogs == Init /\ [][NextCatalogs]_vars

\* The Handler Catalog read through TypeMap while adapters are inserted.
NextTypeMap ==
    \E t \in Threads :
        \/ CallHandlerInsert(t)
        \/ CallTypeMap(t)
        \/ HandlerInsertLock(t)
        \/ HandlerInsertWait(t)
        \/ HandlerInsertWrite(t)
        \/ TypeMapRLock(t)
        \/ TypeMapRead(t)

SpecTypeMap == Init /\ [][NextTypeMap]_vars

\* The Manager's direct dispatch, with registrations through the Manager and
\* through the Handler Catalog alone. Nothing here takes a read lock on the
\* Mapping or the Decoder Catalog, so their writers never queue behind readers.
NextManagerReq ==
    \E t \in Threads :
        \/ CallManagerInsert(t)
        \/ CallHandlerInsert(t)
        \/ CallHandleReq(t)
        \/ MappingInsertLock(t)
        \/ MappingInsertName(t)
        \/ MappingInsertType(t)
        \/ DecoderInsertLock(t)
        \/ DecoderInsertWrite(t)
        \/ HandlerSteps(t)

SpecManagerReq == Init /\ [][NextManagerReq]_vars

\* Every lookup and dispatch operation. A registration through the Manager, if
\* there is one, is the first operation started; lookups and dispatches may
\* overlap it.
NextDispatch ==
    \E t \in Threads :
        \/ ops = 0 /\ CallManagerInsert(t)
        \/ CallByName(t)
        \/ CallByType(t)
        \/ CallDecode(t)
        \/ CallCatalogHandle(t)
        \/ CallHandle(t)
        \/ CallHandleRaw(t)
        \/ CallHandleReq(t)
        \/ CallTypedHandleReq(t)
        \/ MappingSteps(t)
        \/ ByTypeRLock(t)
        \/ ByTypeRead(t)
        \/ DecoderSteps(t)
        \/ HandlerSteps(t)

SpecDispatch == Init /\ [][NextDispatch]_vars

\* Futures: goroutines start them and wait for them, repeatedly and together.
NextFuture ==
    \/ \E t \in Threads :
        \/ Start(t)
        \/ CallWait(t)
        \/ Wait(t)
        \/ WaitResult(t)
    \/ \E f \in 1..Len(futures) :
        \/ FutureRun(f)
        \/ FutureDone(f)

SpecFuture == Init /\ [][NextFuture]_vars

\* A step of a goroutine that Start spawned.
FutureStep == \E f \in 1..Len(futures) : FutureRun(f) \/ FutureDone(f)

\* Start and Value, with Wait calls that may or may not happen. The scheduler
\* does not stop while a spawned goroutine can take a step; nothing makes a
\* test goroutine act.
NextStart ==
    \/ \E t \in Threads :
        \/ Start(t)
        \/ Value(t)
        \/ CallWait(t)
        \/ Wait(t)
        \/ WaitResult(t)
    \/ \E f \in 1..Len(futures) :
        \/ FutureRun(f)
        \/ FutureDone(f)

\* WaitAll and WaitAllMap over futures that complete in any order, all made
\* by one test goroutine as in the tests.
NextWaitAll ==
    \/ \E t \in {TestGoroutine} :
        \/ Start(t)
        \/ WaitAll(t)
        \/ WaitAllMap(t)
    \/ \E f \in 1..Len(futures) :
        \/ FutureRun(f)
        \/ FutureDone(f)
        \/ WaitAllLoop(f)
        \/ WaitAllReturn(f)
        \/ WaitAllMapRange(f)
        \/ WaitAllMapLoop(f)
        \/ WaitAllMapReturn(f)

SpecWaitAll == Init /\ [][NextWaitAll]_vars

\* RaceAll over futures that complete in any order, all made by one test
\* goroutine as in the tests.
NextRaceAll ==
    \/ \E t \in {TestGoroutine} :
        \/ Start(t)
        \/ RaceAll(t)
    \/ \E f \in 1..Len(futures) :
        \/ FutureRun(f)
        \/ FutureDone(f)
        \/ RaceAllSpawn(f)
        \/ RaceAllReceive(f)
        \/ \E i \in 1..Len(futures[f].obs) :
            \/ ObserverWait(f, i)
            \/ ObserverSend(f, i)

SpecRaceAll == Init /\ [][NextRaceAll]_vars

\* A step of a spawned goroutine: of a future's own goroutine, the function
\* of RaceAll included, or of an observer.
RaceStep ==
    \E f \in 1..Len(futures) :
        \/ FutureRun(f)
        \/ FutureDone(f)
        \/ RaceAllSpawn(f)
        \/ RaceAllReceive(f)
        \/ ObserverStep(f)

\* RaceAll with a scheduler that does not stop while a spawned goroutine can
\* take a step; nothing makes the test goroutine act.
SpecRaceAllFair == Init /\ [][NextRaceAll]_vars /\ WF_vars(RaceStep)

\* WaitAll over futures whose functions sleep, with the clock.
NextWaitAllTimed ==
    \/ \E t \in {TestGoroutine} :
        \/ StartSleep(t)
        \/ WaitAll(t)
    \/ \E f \in 1..Len(futures) :
        \/ FutureRun(f)
        \/ FutureDone(f)
        \/ WaitAllLoop(f)
        \/ WaitAllReturn(f)
    \/ Tick

SpecWaitAllTimed == Init /\ [][NextWaitAllTimed]_vars

\* Everything that touches a registered command without necessarily invoking
\* it: registration through the catalog and through the Manager, TypeMap, the
\* lookup by name, and Handle calls on the catalog and on adapters, with
\* requests of the adapter's type and of other types.
NextLazy ==
    \E t \in Threads :
        \/ CallHandlerInsert(t)
        \/ ops = 0 /\ CallManagerInsert(t)
        \/ CallTypeMap(t)
        \/ CallByName(t)
        \/ CallCatalogHandle(t)
        \/ CallAdapterHandle(t)
        \/ MappingSteps(t)
        \/ DecoderInsertLock(t)
        \/ DecoderInsertWrite(t)
        \/ TypeMapRLock(t)
        \/ TypeMapRead(t)
        \/ HandlerSteps(t)

SpecLazy == Init /\ [][NextLazy]_vars

\* A step of goroutine t inside HandlerCatalog.Handle or HandlerCatalog.Insert,
\* with handlers that take their time.
SlowHandleStep(t) ==
    \/ HandlerInsertLock(t)
    \/ HandlerInsertWait(t)
    \/ HandlerInsertWrite(t)
    \/ CatalogHandleRLock(t)
    \/ CatalogHandleLookup(t)
    \/ AdapterHandleCheck(t)
    \/ AdapterHandleRLock(t)
    \/ AdapterHandleRead(t)
    \/ AdapterHandleLock(t)
    \/ AdapterHandleWait(t)
    \/ AdapterHandleBuild(t)
    \/ AdapterHandleReread(t)
    \/ AdapterHandleEnter(t)
    \/ AdapterHandleLeave(t)
    \/ CatalogHandleUnlock(t)

\* Concurrent dispatches through the Handler Catalog to handlers that take
\* their time.
NextSlowHandle ==
    \E t \in Threads :
        \/ CallHandlerInsert(t)
        \/ CallCatalogHandle(t)
        \/ SlowHandleStep(t)

SpecSlowHandle == Init /\ [][NextSlowHandle]_vars

SpecStart == Init /\ [][NextStart]_vars /\ WF_vars(FutureStep)

\* RaceAll over futures that complete in any order or never complete, with a
\* scheduler that does not stop while a spawned goroutine can take a step.
NextRaceAllBlocked ==
    \/ \E t \in {TestGoroutine} :
        \/ Value(t)
        \/ StartBlocked(t)
        \/ RaceAll(t)
    \/ \E f \in 1..Len(futures) :
        \/ FutureRun(f)
        \/ FutureDone(f)
        \/ RaceAllSpawn(f)
        \/ RaceAllReceive(f)
        \/ \E i \in 1..Len(futures[f].obs) :
            \/ ObserverWait(f, i)
            \/ ObserverSend(f, i)

SpecRaceAllBlocked == Init /\ [][NextRaceAllBlocked]_vars /\ WF_vars(RaceStep)

\* A step of goroutine t inside DefaultHandlerAdapter.Handle.
AdapterStep(t) ==
    \/ AdapterHandleCheck(t)
    \/ AdapterHandleRLock(t)
    \/ AdapterHandleRead(t)
    \/ AdapterHandleLock(t)
    \/ AdapterHandleWait(t)
    \/ AdapterHandleBuild(t)
    \/ AdapterHandleReread(t)
    \/ AdapterHandleCall(t)

\* Adapters the test makes itself, with factories that return a handler and
\* factories that return nil, and concurrent Handle calls on them.
NextAdapter ==
    \E t \in Threads :
        \/ NewNilFactoryAdapter(t)
        \/ NewAdapter(t)
        \/ CallAdapterHandle(t)
        \/ AdapterStep(t)

SpecAdapter == Init /\ [][NextAdapter]_vars

\* The typed wrappers of the Handler Catalog, the synchronous one and the
\* asynchronous one, while adapters are inserted.
NextAsync ==
    \E t \in Threads :
        \/ CallHandlerInsert(t)
        \/ CallHandle(t)
        \/ CallFuture(t)
        \/ HandlerSteps(t)

SpecAsync == Init /\ [][NextAsync]_vars

\* A step of goroutine t inside HandlerCatalog.Handle or HandlerCatalog.Insert,
\* with handlers that return at once and handlers that dispatch another
\* request through the catalog.
NestedStep(t) ==
    \/ HandlerSteps(t)
    \/ NestingHandlerEnter(t)
    \/ NestingHandlerLeave(t)

\* Dispatches through the Handler Catalog to handlers that dispatch through
\* it themselves, while adapters are inserted.
NextNested ==
    \E t \in Threads :
        \/ CallHandlerInsert(t)
        \/ CallCatalogHandle(t)
        \/ NestedStep(t)

SpecNested == Init /\ [][NextNested]_vars

\* WaitAll over futures that complete in any order or never complete.
NextWaitAllFair ==
    \/ \E t \in {TestGoroutine} :
        \/ Value(t)
        \/ StartBlocked(t)
        \/ WaitAll(t)
    \/ \E f \in 1..Len(futures) :
        \/ FutureRun(f)
        \/ FutureDone(f)
        \/ WaitAllLoop(f)
        \/ WaitAllReturn(f)

\* A step of a spawned goroutine: of a future's own goroutine, the function
\* of WaitAll included.
WaitAllStep ==
    \E f \in 1..Len(futures) :
        \/ FutureRun(f)
        \/ FutureDone(f)
        \/ WaitAllLoop(f)
        \/ WaitAllReturn(f)

\* WaitAll with a scheduler that does not stop while a spawned goroutine can
\* take a step; nothing makes the test goroutine act.
SpecWaitAllFair == Init /\ [][NextWaitAllFair]_vars /\ WF_vars(WaitAllStep)

\* The Decoder Catalog and the default decoder, with every kind of payload.
NextDecoder ==
    \E t \in Threads :
        \/ CallDecoderInsert(t)
        \/ CallDecode(t)
        \/ CallDecodeEmpty(t)
        \/ CallDefaultDecoder(t)
        \/ DecoderSteps(t)

SpecDecoder == Init /\ [][NextDecoder]_vars

\* ------------------------------------------------------------------ claims

\* A goroutine has returned from the operation op.
Returned(t, op) == th[t].pc = "idle" /\ th[t].op = op

\* C1: a HandleRaw that resolved its name to a request type registered by a
\* completed Manager Insert, on a payload that type's decoder accepts, decoded
\* the payload with that decoder, ran the handler of that type's adapter on the
\* decoded request and, when the handler returned no error, returned exactly
\* the handler's result and no error.
C1_HandleRawPipeline ==
    \A t \in Threads :
        (/\ Returned(t, "HandleRaw")
         /\ th[t].full
         /\ DefaultDecoder(th[t].typ, th[t].data).err = NilErr)
        => /\ \E i \in 1..Len(insLog) :
                insLog[i] = [name |-> th[t].name, type |-> th[t].typ]
           /\ th[t].dec = DecoderFor(th[t].typ)
           /\ th[t].req = DefaultDecoder(th[t].typ, th[t].data).req
           /\ th[t].called
           /\ heap[th[t].ad].reqType = th[t].typ
           /\ th[t].herr = NilErr =>
                /\ th[t].hres = (IF th[t].typ = "AddCommandReq"
                                 THEN AddHandler(th[t].req) ELSE SubHandler(th[t].req))
                /\ th[t].res = th[t].hres
                /\ th[t].err = NilErr

\* C1 witness: "add" was registered and HandleRaw("add", {argX:3, argY:4})
\* returned {Result:7} and no error.
C1_Witness ==
    \E t \in Threads :
        /\ Returned(t, "HandleRaw")
        /\ th[t].full
        /\ th[t].name = "add" /\ th[t].typ = "AddCommandReq"
        /\ th[t].data = JSONObject(3, 4)
        /\ th[t].res = AddCommandRes(7)
        /\ th[t].err = NilErr

C3_ConstructOnce ==
    \A a \in 1..Len(heap) :
        /\ heap[a].built <= 1
        /\ \A t \in Threads :
            (th[t].ad = a /\ th[t].handler # 0) => th[t].handler = heap[a].handler

\* C3 witness: two goroutines found the handler nil on first use; the second
\* one holds the lock and finds the handler built by the first.
C3_Witness ==
    \E t \in Threads :
        /\ th[t].pc = "ah_build"
        /\ heap[th[t].ad].handler # 0

C5_Bijection ==
    mapMutex.holder = NoThread =>
        /\ \A n \in DOMAIN nameMappings :
              ByType(ByName(n).reqType) = [reqName |-> n, err |-> NilErr]
        /\ \A T \in DOMAIN typeMappings :
              ByName(ByType(T).reqName) = [reqType |-> T, err |-> NilErr]

\* An Insert of the log is live when no later Insert reused its name or its type.
Live(i) ==
    \A j \in (i + 1)..Len(insLog) :
        insLog[j].name # insLog[i].name /\ insLog[j].type # insLog[i].type

\* C6: for every pair (name, reqType) registered by an Insert that no later
\* Insert has overwritten, ByName(name) returns reqType and ByType(reqType)
\* returns name, each with no error.
C6_RegisteredPairs ==
    mapMutex.holder = NoThread =>
        \A i \in 1..Len(insLog) :
            Live(i) =>
                /\ ByName(insLog[i].name) = [reqType |-> insLog[i].type, err |-> NilErr]
                /\ ByType(insLog[i].type) = [reqName |-> insLog[i].name, err |-> NilErr]

\* C6 witness: a ByType of a registered pair has returned its name, after
\* another Insert too.
C6_Witness ==
    \E t \in Threads :
        /\ Returned(t, "ByType")
        /\ th[t].err = NilErr
        /\ Len(insLog) = 2
        /\ \E i \in 1..Len(insLog) :
            Live(i) /\ insLog[i] = [name |-> th[t].rname, type |-> th[t].typ]

\* C7 as claimed: no HandleRaw ever fails with DecoderMissing or HandlerMissing.
C7_NoPartialRegistration ==
    \A t \in Threads :
        Returned(t, "HandleRaw") =>
            ~Is(th[t].err, ErrDecoderMissing) /\ ~Is(th[t].err, ErrHandlerMissing)

\* C7 amended: a HandleRaw fails with DecoderMissing or HandlerMissing only
\* when it resolved its name before any Manager Insert of the resolved request
\* type had returned.
C7_PartialOnlyDuringInsert ==
    \A t \in Threads :
        (/\ Returned(t, "HandleRaw")
         /\ Is(th[t].err, ErrDecoderMissing) \/ Is(th[t].err, ErrHandlerMissing))
        => ~th[t].full

\* C7 witness: a HandleRaw, concurrent with the Insert of its name, resolved
\* the name, decoded the payload and found no handler.
C7_Witness ==
    \E t \in Threads :
        /\ Returned(t, "HandleRaw")
        /\ Is(th[t].err, ErrHandlerMissing)
        /\ th[t].req # NilVal

\* C8: at most one goroutine is at the write of the adapters map and none reads
\* the map meanwhile, every Insert that returned left its type registered, and
\* every dispatch that found an adapter ran the adapter of the request's own type.
C8_ConcurrentInsert ==
    /\ Cardinality({t \in Threads : th[t].pc = "hi_write"}) <= 1
    /\ (\E t \in Threads : th[t].pc = "hi_write") =>
            (\A u \in Threads : th[u].pc # "hh_lookup")
    /\ \A t \in Threads :
        Returned(t, "HandlerInsert") =>
            /\ th[t].typ \in DOMAIN adapters
            /\ heap[adapters[th[t].typ]].reqType = th[t].typ
    /\ \A t \in Threads :
        (Returned(t, "CatalogHandle") /\ th[t].ad # 0) =>
            /\ heap[th[t].ad].reqType = TypeOf(th[t].req)
            /\ th[t].called
            /\ TypeOf(th[t].hres) = ResOf(TypeOf(th[t].req))

\* C8 witness: two goroutines have inserted adapters for the two request types.
C8_Witness ==
    /\ \A t \in Threads : Returned(t, "HandlerInsert")
    /\ {th[t].typ : t \in Threads} = ReqTypes
    /\ DOMAIN adapters = ReqTypes
    /\ ops = 2

\* C9: a Handle of an adapter with a request of another type returned a nil
\* result and an error that is an InvalidReqType, and did not run the handler.
C9_InvalidReqType ==
    \A t \in Threads :
        (Returned(t, "AdapterHandle") /\ TypeOf(th[t].req) # heap[th[t].ad].reqType)
        => /\ th[t].res = NilVal
           /\ ~th[t].called
           /\ Is(th[t].err, ErrInvalidReqType)

\* C10: the typed Handle returned the catalog's result and error when the
\* result's type is TRes, and the zero value of TRes with an InvalidResType
\* error when the handler produced a result of another type.
C10_TypedHandle ==
    \A t \in Threads :
        Returned(t, "Handle") =>
            /\ th[t].called => th[t].cres = th[t].hres /\ th[t].cerr = th[t].herr
            /\ TypeOf(th[t].cres) = th[t].tres =>
                  th[t].res = th[t].cres /\ th[t].err = th[t].cerr
            /\ (th[t].called /\ TypeOf(th[t].hres) # th[t].tres) =>
                  th[t].res = ZeroOf(th[t].tres) /\ Is(th[t].err, ErrInvalidResType)

\* C10 witness: one typed Handle returned the handler's result, another one,
\* which expected the other result type, returned InvalidResType.
C10_Witness ==
    \E t, u \in Threads :
        /\ Returned(t, "Handle") /\ th[t].called
        /\ th[t].res = AddCommandRes(7) /\ th[t].err = NilErr
        /\ Returned(u, "Handle") /\ th[u].called
        /\ TypeOf(th[u].hres) # th[u].tres
        /\ Is(th[u].err, ErrInvalidResType)

\* C11: a HandlerCatalog.Handle that found an adapter, and an adapter's Handle
\* whose request passed the type check, called the handler exactly once and
\* returned exactly the result and the error the handler returned.
C11_HandlerResultUnchanged ==
    \A t \in Threads :
        (\/ Returned(t, "CatalogHandle") /\ th[t].ad # 0
         \/ /\ Returned(t, "AdapterHandle")
            /\ TypeOf(th[t].req) = heap[th[t].ad].reqType)
        => /\ th[t].calls = 1
           /\ th[t].res = th[t].hres
           /\ th[t].err = th[t].herr

\* C11 witness: a catalog Handle returned the zero result and the error of a
\* handler that failed, while the other goroutine's Handle returned a result.
C11_Witness ==
    \E t, u \in Threads :
        /\ Returned(t, "CatalogHandle") /\ th[t].ad # 0
        /\ th[t].err = <<ErrHandlerFailed>>
        /\ th[t].res = ZeroOf(ResOf(TypeOf(th[t].req)))
        /\ Returned(u, "CatalogHandle") /\ th[u].ad # 0
        /\ th[u].err = NilErr
        /\ th[u].res = AddCommandRes(7)

\* The positions of the three stages of a dispatch.
MappingStage == {"bn_rlock", "bn_read"}
DecodeStage == {"dc_rlock", "dc_read", "dc_call"}
HandleStage == {"hh_rlock", "hh_lookup", "ah_check", "ah_rlock", "ah_read", "ah_lock",
                "ah_wait", "ah_build", "ah_reread", "ah_call", "hh_unlock"}

C13_DecoderFailureWraps ==
    \A t \in Threads :
        (Returned(t, "Decode") /\ th[t].dec # NilVal) =>
            LET d == CallDecoder(th[t].dec, th[t].data) IN
            (d.err # NilErr \/ d.req = NilVal) =>
                /\ th[t].res = NilVal
                /\ Is(th[t].err, ErrDecoderFailure)
                /\ \A i \in 1..Len(d.err) : Is(th[t].err, d.err[i])

\* A goroutine has the outcome of the default decoder of its own type: from a
\* direct call, or from a Decode that found that decoder.
Decoded(t) ==
    \/ Returned(t, "DefaultDecoder")
    \/ Returned(t, "Decode") /\ th[t].dec = DecoderFor(th[t].typ)

\* C14 as stated: the default decoder, called directly or through Decode, turns
\* the object {}, zero-length bytes and nil bytes into the zero value of the
\* request type, with no error.
C14_EmptyPayloadZero ==
    \A t \in Threads :
        (Decoded(t) /\ th[t].data \in EmptyPayloads) =>
            /\ th[t].res = ZeroOf(th[t].typ)
            /\ th[t].err = NilErr

\* C14 amended: the object {} decodes to the zero value with no error; bytes
\* of length zero and nil bytes give a nil request and an error, which from
\* Decode is a DecoderFailure.
C14_EmptyObjectZero ==
    \A t \in Threads :
        Decoded(t) =>
            /\ th[t].data = EmptyObject =>
                    /\ th[t].res = ZeroOf(th[t].typ)
                    /\ th[t].err = NilErr
            /\ th[t].data \in {EmptyBytes, NilBytes} =>
                    /\ th[t].res = NilVal
                    /\ th[t].err # NilErr
                    /\ th[t].op = "Decode" => Is(th[t].err, ErrDecoderFailure)

\* C14 witness: one goroutine decoded {} through the catalog into the zero
\* AddCommandReq, the other got a DecoderFailure for nil bytes.
C14_Witness ==
    \E t, u \in Threads :
        /\ Returned(t, "Decode") /\ th[t].dec = DecoderFor("AddCommandReq")
        /\ th[t].data = EmptyObject
        /\ th[t].res = AddCommandReq(0, 0) /\ th[t].err = NilErr
        /\ Returned(u, "Decode") /\ th[u].dec = DecoderFor(th[u].typ)
        /\ th[u].data = NilBytes
        /\ Is(th[u].err, ErrDecoderFailure)

\* The place in the first n entries of a log of the last one whose key is T,
\* or 0 when there is none.
LastDecoder(n, T) ==
    LET I == {i \in 1..n : decLog[i].type = T}
    IN IF I = {} THEN 0 ELSE CHOOSE i \in I : \A j \in I : j <= i
LastAdapter(n, T) ==
    LET I == {i \in 1..n : heap[hiLog[i]].reqType = T}
    IN IF I = {} THEN 0 ELSE CHOOSE i \in I : \A j \in I : j <= i

\* C15: each catalog holds under every key the entry of the last Insert
\* completed for that key and nothing under a key with no Insert; a Decode uses
\* the decoder, and a Handle the adapter, of the last Insert for its key that
\* had completed when it read the map, and builds and calls that adapter's
\* handler only.
C15_LastWriterWins ==
    /\ \A T \in ReqTypes :
        /\ IF LastDecoder(Len(decLog), T) = 0 THEN T \notin DOMAIN decoders
           ELSE /\ T \in DOMAIN decoders
                /\ decoders[T] = decLog[LastDecoder(Len(decLog), T)].dec
        /\ IF LastAdapter(Len(hiLog), T) = 0 THEN T \notin DOMAIN adapters
           ELSE /\ T \in DOMAIN adapters
                /\ adapters[T] = hiLog[LastAdapter(Len(hiLog), T)]
    /\ \A t \in Threads :
        /\ (Returned(t, "Decode") /\ LastDecoder(th[t].decSeen, th[t].typ) # 0) =>
                /\ th[t].dec = decLog[LastDecoder(th[t].decSeen, th[t].typ)].dec
                /\ LET d == CallDecoder(th[t].dec, th[t].data)
                   IN d.err = NilErr => (th[t].res = d.req /\ th[t].err = NilErr)
        /\ (Returned(t, "CatalogHandle")
                /\ LastAdapter(th[t].hiSeen, TypeOf(th[t].req)) # 0) =>
                /\ th[t].ad = hiLog[LastAdapter(th[t].hiSeen, TypeOf(th[t].req))]
                /\ th[t].called
                /\ th[t].handler = heap[th[t].ad].handler

\* C15 witness: two adapters were inserted for one request type and a Handle
\* that looked up afterwards ran the second one; the first one's factory was
\* never called.
C15_Witness ==
    \E t \in Threads :
        /\ Len(hiLog) = 2
        /\ heap[hiLog[1]].reqType = heap[hiLog[2]].reqType
        /\ Returned(t, "CatalogHandle")
        /\ th[t].hiSeen = 2
        /\ th[t].ad = hiLog[2]
        /\ th[t].called
        /\ heap[hiLog[1]].built = 0
        /\ heap[hiLog[2]].built = 1

\* C16: the map a TypeMap call returned has as keys exactly the request types
\* with an Insert completed when it read the catalog, and as the value of each
\* key the result type of the adapter of the last such Insert for that key.
C16_TypeMap ==
    \A t \in Threads :
        Returned(t, "TypeMap") =>
            /\ DOMAIN th[t].typeMap =
                    {T \in ReqTypes : LastAdapter(th[t].hiSeen, T) # 0}
            /\ \A T \in DOMAIN th[t].typeMap :
                    th[t].typeMap[T] = heap[hiLog[LastAdapter(th[t].hiSeen, T)]].resType

\* C16 witness: after the Inserts for the two request types had completed,
\* TypeMap returned both pairs.
C16_Witness ==
    \E t \in Threads :
        /\ Returned(t, "TypeMap")
        /\ th[t].hiSeen = 2
        /\ th[t].typeMap = [T \in ReqTypes |-> ResOf(T)]
        /\ th[t].typeMap["AddCommandReq"] = "AddCommandRes"

\* What a Manager.HandleReq in progress leaves alone.
HandleReqFrame ==
    \A t \in Threads :
        (th[t].op = "HandleReq" /\ th[t].pc # "idle" /\ th'[t] # th[t])
        => UNCHANGED <<mapVars, decVars>>

\* What holds of a Manager.HandleReq at every moment: it is at no position of
\* the Mapping or Decoder Catalog; one that returned with an adapter registered
\* for the request's type ran that adapter's handler and returned its result
\* and no error (or nil and the handler's error), whatever the two other
\* catalogs hold; one that returned with none returned nil and HandlerMissing.
HandleReqResult ==
    \A t \in Threads :
        th[t].op = "HandleReq" =>
            /\ th[t].pc \in HandleStage \cup {"idle"}
            /\ th[t].rtype = NilType /\ th[t].dec = NilVal /\ th[t].decSeen = 0
            /\ (th[t].pc = "idle"
                    /\ LastAdapter(th[t].hiSeen, TypeOf(th[t].req)) # 0) =>
                    /\ th[t].ad = hiLog[LastAdapter(th[t].hiSeen, TypeOf(th[t].req))]
                    /\ th[t].calls = 1
                    /\ IF th[t].herr = NilErr
                       THEN th[t].res = th[t].hres /\ th[t].err = NilErr
                       ELSE th[t].res = NilVal /\ Is(th[t].err, ErrHandlerFailed)
            /\ (th[t].pc = "idle"
                    /\ LastAdapter(th[t].hiSeen, TypeOf(th[t].req)) = 0) =>
                    /\ th[t].res = NilVal
                    /\ Is(th[t].err, ErrHandlerMissing)
                    /\ th[t].calls = 0

DispatchOps == {"CatalogHandle", "Handle", "HandleRaw", "HandleReq", "TypedHandleReq"}

\* The next step of goroutine t inside the operation it is in.
StepOf(t) ==
    \/ MappingSteps(t)
    \/ ByTypeRLock(t)
    \/ ByTypeRead(t)
    \/ DecoderSteps(t)
    \/ HandlerSteps(t)

\* C18: a goroutine panics only in the typed HandleReq and only on the result
\* of a handler that ran and succeeded, never on a missing registration or a
\* bad payload; a lookup that found nothing, a Decode that produced no request
\* and a dispatch that never reached a handler returned a non-nil error; and
\* while any operation is in progress some goroutine can take a step, so every
\* operation runs to its return.
C18_ErrorsNotPanics ==
    /\ \A t \in Threads :
        /\ th[t].pc = "panic" =>
                /\ th[t].op = "TypedHandleReq"
                /\ th[t].called /\ th[t].herr = NilErr
                /\ TypeOf(th[t].hres) # th[t].tres
        /\ (Returned(t, "ByName") /\ th[t].rtype = NilType) => th[t].err # NilErr
        /\ (Returned(t, "ByType") /\ th[t].rname = "") => th[t].err # NilErr
        /\ Returned(t, "Decode") =>
                /\ th[t].res = NilVal => th[t].err # NilErr
                /\ (th[t].dec = NilVal
                        \/ CallDecoder(th[t].dec, th[t].data).err # NilErr)
                    => th[t].res = NilVal
        /\ (th[t].pc = "idle" /\ th[t].op \in DispatchOps /\ ~th[t].called)
                => th[t].err # NilErr
        /\ (Returned(t, "HandleRaw") /\ th[t].dec # NilVal
                /\ CallDecoder(th[t].dec, th[t].data).err # NilErr)
                => th[t].err # NilErr /\ ~th[t].called
    /\ (\E t \in Threads : th[t].pc \notin {"idle", "panic"})
            => \E t \in Threads : ENABLED StepOf(t)

\* C18 witness: with "add" registered, a typed HandleReq for the unregistered
\* SubCommandReq returned HandlerMissing and a HandleRaw of "add" with a
\* malformed payload returned DecoderFailure.
C18_Witness ==
    \E t, u \in Threads :
        /\ Returned(t, "TypedHandleReq")
        /\ TypeOf(th[t].req) = "SubCommandReq"
        /\ Is(th[t].err, ErrHandlerMissing)
        /\ th[t].res = ZeroOf(th[t].tres)
        /\ Returned(u, "HandleRaw")
        /\ th[u].name = "add" /\ th[u].data = Malformed
        /\ Is(th[u].err, ErrDecoderFailure)
        /\ mgrDone = {"AddCommandReq"}

\* C19: all Wait calls that returned for one future returned the same value,
\* the value its function returned, and the function of every future has run
\* at most once, and exactly once when its goroutine is past the call.
C19_WaitIdempotent ==
    /\ \A i, j \in 1..Len(waitLog) :
            waitLog[i].fut = waitLog[j].fut => waitLog[i].val = waitLog[j].val
    /\ \A i \in 1..Len(waitLog) : waitLog[i].val = futures[waitLog[i].fut].fn
    /\ \A f \in 1..Len(futures) :
            futures[f].runs = (IF futures[f].wpc = "run" THEN 0 ELSE 1)

\* C19 witness: two Wait calls on one future, one by each goroutine, have
\* returned.
C19_Witness ==
    /\ Len(futures) = 1
    /\ Len(waitLog) = 2
    /\ waitLog[1].fut = waitLog[2].fut
    /\ \A t \in Threads : Returned(t, "Wait")
    /\ futures[1].runs = 1

\* A future is pending while its WaitGroup counter is 1 and resolved when it is 0.
Pending(f) == futures[f].waitGroup = 1
Resolved(f) == futures[f].waitGroup = 0

\* What holds of the futures at every moment.
FutureStates ==
    /\ \A f \in 1..Len(futures) :
        /\ Pending(f) \/ Resolved(f)
        /\ Resolved(f) => futures[f].result = futures[f].fn /\ futures[f].wpc = "exit"
        /\ futures[f].wpc = "run" => Pending(f) /\ futures[f].result = ZeroString
    /\ \A t \in Threads :
        /\ (th[t].op = "Wait" /\ th[t].pc \in {"fw_read", "idle"}) => Resolved(th[t].fut)
        /\ Returned(t, "Wait") =>
                th[t].res = futures[th[t].fut].fn /\ th[t].res # ZeroString

\* How the futures change in a step: a new one starts pending, a resolved one
\* stays as it is, and a pending one becomes resolved only by the Done of its
\* own goroutine, after the result was written.
FutureSteps ==
    /\ Len(futures') >= Len(futures)
    /\ \A f \in 1..Len(futures') :
        /\ f > Len(futures) => futures'[f].waitGroup = 1 /\ futures'[f].wpc = "run"
        /\ (f <= Len(futures) /\ Resolved(f)) => futures'[f] = futures[f]
        /\ (f <= Len(futures) /\ Pending(f) /\ futures'[f].waitGroup = 0) =>
                /\ futures[f].wpc = "done"
                /\ futures'[f].result = futures[f].result

\* C20: a future is pending or resolved, starts pending, becomes resolved once
\* and stays resolved with its result unchanged, and a Wait is past its
\* blocking call, and returns the function's value, only on a resolved future.
C20_PendingResolved == []FutureStates /\ [][FutureSteps]_vars

\* C20 witness: a Wait returned the value of a resolved future while a second
\* future is still pending.
C20_Witness ==
    \E t \in Threads :
        /\ Returned(t, "Wait")
        /\ th[t].res = Result1
        /\ Resolved(th[t].fut)
        /\ \E f \in 1..Len(futures) : Pending(f) /\ f # th[t].fut

\* The step in which Start or Value returns: the goroutine that called it is
\* free again, and the new future is pending with its function not yet run.
StartReturns ==
    Len(futures') > Len(futures) =>
        /\ Len(futures') = Len(futures) + 1
        /\ \E t \in Threads :
            /\ th[t].pc = "idle" /\ th'[t].pc = "idle"
            /\ th'[t].op \in {"Start", "Value"}
            /\ th'[t].fut = Len(futures')
        /\ futures'[Len(futures')].waitGroup = 1
        /\ futures'[Len(futures')].runs = 0

\* C21: under fair scheduling of the spawned goroutines every future that
\* Start or Value returned becomes resolved, in every behaviour, those in which
\* no Wait is ever called included: whatever has been started, a moment comes
\* at which all futures are resolved. And Start returns in the step that
\* creates the future, before its function has run.
C21_RunsToCompletion ==
    /\ []<>(\A f \in 1..Len(futures) : futures[f].waitGroup = 0)
    /\ [][StartReturns]_vars

\* C21 witness: three futures are resolved, one of them made by Value, and no
\* Wait was ever called (every operation started was a Start or a Value).
C21_Witness ==
    /\ Len(futures) = 3
    /\ ops = 3
    /\ \A f \in 1..3 : Resolved(f) /\ futures[f].result = futures[f].fn
    /\ \E f \in 1..3 : futures[f].kind = "Value"
    /\ waitLog = << >>
    /\ \A t \in Threads : th[t].pc = "idle"

\* The futures WaitAll returned whose function has returned.
WaitAllReturned ==
    {w \in 1..Len(futures) :
        futures[w].kind = "WaitAll" /\ futures[w].wpc \in {"done", "exit"}}

\* C22: the value of a WaitAll future whose function has returned is a
\* sequence as long as the input list, and its i-th element is the result of
\* the i-th input, which is resolved, whatever the order and the times at
\* which the inputs completed.
C22_WaitAllPositional ==
    \A w \in WaitAllReturned :
        /\ DOMAIN futures[w].result = 1..Len(futures[w].in)
        /\ \A i \in 1..Len(futures[w].in) :
            /\ Resolved(futures[w].in[i])
            /\ futures[w].result[i] = futures[futures[w].in[i]].result
            /\ futures[w].result[i] = futures[futures[w].in[i]].fn

\* C22 witness: WaitAll over two futures with different values has resolved,
\* and the second input completed before the first.
C22_Witness ==
    \E w \in WaitAllReturned :
        /\ Resolved(w)
        /\ Len(futures[w].in) = 2
        /\ futures[futures[w].in[2]].nth < futures[futures[w].in[1]].nth
        /\ futures[w].result = <<Result1, Result2>>

\* The futures WaitAllMap returned whose function has returned.
WaitAllMapReturned ==
    {w \in 1..Len(futures) :
        futures[w].kind = "WaitAllMap" /\ futures[w].wpc \in {"done", "exit"}}

\* C23: the value of a WaitAllMap future whose function has returned is a map
\* with exactly the keys of the input map, and each key has the result of that
\* key's input, which is resolved, whatever the order in which the inputs
\* completed and the order in which the range statement visited the keys.
C23_WaitAllMapKeyed ==
    \A w \in WaitAllMapReturned :
        /\ DOMAIN futures[w].result = DOMAIN futures[w].in
        /\ \A k \in DOMAIN futures[w].in :
            /\ Resolved(futures[w].in[k])
            /\ futures[w].result[k] = futures[futures[w].in[k]].result
            /\ futures[w].result[k] = futures[futures[w].in[k]].fn

\* C23 witness: WaitAllMap over two keys with different values has resolved;
\* the range visited fut2 before fut1, and the input of fut1 completed after
\* that of fut2.
C23_Witness ==
    \E w \in WaitAllMapReturned :
        /\ Resolved(w)
        /\ futures[w].visited = <<"fut2", "fut1">>
        /\ futures[futures[w].in["fut2"]].nth < futures[futures[w].in["fut1"]].nth
        /\ futures[w].result["fut1"] = Result1
        /\ futures[w].result["fut2"] = Result2

\* The futures of RaceAll with inputs whose function has received its value.
RaceAllReturned ==
    {w \in 1..Len(futures) :
        futures[w].kind = "RaceAll" /\ futures[w].wpc \in {"done", "exit"}}

\* The places in w's input list of the futures that completed before every
\* other future of the list.
FirstCompleted(w) ==
    {i \in 1..Len(futures[w].in) :
        /\ Resolved(futures[w].in[i])
        /\ \A j \in 1..Len(futures[w].in) :
                futures[w].in[j] # futures[w].in[i] =>
                    \/ Pending(futures[w].in[j])
                    \/ futures[futures[w].in[i]].nth < futures[futures[w].in[j]].nth}

RaceAllValue ==
    \A w \in RaceAllReturned :
        /\ futures[w].cur \in 1..Len(futures[w].in)
        /\ Resolved(futures[w].in[futures[w].cur])
        /\ futures[w].result = futures[futures[w].in[futures[w].cur]].fn
        /\ futures[w].obs[futures[w].cur].pc = "exit"

\* The step in which the function of RaceAll receives: the value is the first
\* one sent on the channel, and when only one of the inputs is resolved at
\* that moment it is that input's result.
RaceAllReceives ==
    \A w \in 1..Len(futures) :
        (futures[w].wpc = "ra_receive" /\ futures'[w].wpc = "done") =>
            /\ futures'[w].result = futures[w].ch[1].val
            /\ \A i \in 1..Len(futures[w].in) :
                    (/\ Resolved(futures[w].in[i])
                     /\ \A j \in 1..Len(futures[w].in) :
                            futures[w].in[j] # futures[w].in[i] => Pending(futures[w].in[j]))
                    => futures'[w].result = futures[futures[w].in[i]].fn

ObserversUnblocked ==
    \A w \in 1..Len(futures) :
        /\ Len(futures[w].ch) + Cardinality({i \in 1..Len(futures[w].obs) :
                                                futures[w].obs[i].pc = "send"})
                <= Len(futures[w].in)
        /\ \A i \in 1..Len(futures[w].obs) :
                futures[w].obs[i].pc = "send" => ENABLED ObserverSend(w, i)

\* Every future is resolved, the inputs that lost a race included, and every
\* RaceAll has all its observers, each of which has sent its value and ended.
AllComplete ==
    \A f \in 1..Len(futures) :
        /\ Resolved(f)
        /\ Len(futures[f].obs) = (IF futures[f].kind = "RaceAll"
                                  THEN Len(futures[f].in) ELSE 0)
        /\ \A i \in 1..Len(futures[f].obs) : futures[f].obs[i].pc = "exit"

\* C25: every input of a RaceAll becomes resolved, the losing ones after the
\* RaceAll has resolved included, and every observer sends its value and
\* ends: none is ever blocked at the channel, whose buffer has room for the
\* values of all observers, so whatever has been started, a moment comes at
\* which all futures are resolved and all observers have ended.
C25_LosersComplete == []ObserversUnblocked /\ []<>AllComplete

\* C25 witness: a RaceAll over two futures resolved to the result of its
\* first input while the second was pending; now the second has resolved too
\* and both observers have sent and ended, the loser's value left in the
\* channel.
C25_Witness ==
    \E w \in RaceAllReturned :
        /\ Resolved(w)
        /\ Len(futures[w].in) = 2
        /\ futures[w].cur = 1
        /\ futures[w].nth < futures[futures[w].in[2]].nth
        /\ Resolved(futures[w].in[2])
        /\ \A i \in 1..2 : futures[w].obs[i].pc = "exit"
        /\ Len(futures[w].ch) = 1
        /\ futures[w].ch[1].from = 2

\* The largest member of a non-empty set of numbers.
Latest(S) == CHOOSE x \in S : \A y \in S : y <= x

\* C26: with statements that take no time, a future of Start resolves when
\* its own sleep is over, counted from its own Start, and a WaitAll future
\* resolves at the moment its slowest input resolves, or at its own Start if
\* all inputs had resolved by then: never at the sum of the inputs' sleeps.
C26_WaitAllBoundedBySlowest ==
    \A w \in 1..Len(futures) :
        Resolved(w) =>
            /\ futures[w].kind = "fn" => futures[w].at = futures[w].born + futures[w].sleep
            /\ futures[w].kind = "WaitAll" =>
                    futures[w].at =
                        Latest({futures[w].born} \cup
                               {futures[futures[w].in[i]].born + futures[futures[w].in[i]].sleep :
                                    i \in 1..Len(futures[w].in)})

\* C26 witness: two futures started at time 0 sleep 100ms and 200ms, and the
\* WaitAll over them, which waits for the slower one first, resolved at 200ms.
C26_Witness ==
    \E w \in WaitAllReturned :
        /\ Resolved(w)
        /\ futures[w].in = <<2, 1>>
        /\ futures[1].sleep = 1 /\ futures[2].sleep = 2
        /\ \A f \in 1..3 : futures[f].born = 0
        /\ futures[w].at = 2

\* The futures of WaitAll and WaitAllMap with no inputs.
EmptyWaits ==
    {w \in 1..Len(futures) :
        futures[w].kind \in {"WaitAll", "WaitAllMap"} /\ DOMAIN futures[w].in = {}}

\* C27: the function of a WaitAll with no futures, and of a WaitAllMap with
\* an empty map, never calls Wait and is never blocked: it can return at once,
\* whatever the other futures do, and it returns the empty sequence or the
\* empty map, which is the value the future resolves to.
C27_EmptyWaitAll ==
    \A w \in EmptyWaits :
        /\ futures[w].waits = 0
        /\ futures[w].wpc \notin {"wm_loop"}
        /\ futures[w].wpc = "wa_loop" => ENABLED WaitAllReturn(w)
        /\ futures[w].wpc = "wm_range" => ENABLED WaitAllMapReturn(w)
        /\ futures[w].wpc = "done" => ENABLED FutureDone(w)
        /\ futures[w].wpc \in {"done", "exit"} =>
                /\ DOMAIN futures[w].result = {}
                /\ futures[w].result = << >>

\* C27 witness: a WaitAll without futures and a WaitAllMap of an empty map
\* have resolved while the only other future is still pending.
C27_Witness ==
    /\ Len(futures) = 3
    /\ \E a, b \in EmptyWaits :
        /\ futures[a].kind = "WaitAll" /\ Resolved(a) /\ futures[a].result = << >>
        /\ futures[b].kind = "WaitAllMap" /\ Resolved(b) /\ futures[b].result = << >>
    /\ \E f \in StringFutures : futures[f].wpc = "run"

\* The futures RaceAll returned for an empty argument list.
EmptyRaces ==
    {w \in 1..Len(futures) : futures[w].kind # "fn" /\ Len(futures[w].in) = 0}

\* C28: the future of a RaceAll without futures is never blocked: until its
\* goroutine has ended, that goroutine's next step is enabled in every state,
\* and it never waits at a channel; once resolved its value is the zero value
\* of the result type.
C28_EmptyRaceAll ==
    \A w \in EmptyRaces :
        /\ futures[w].wpc \in {"run", "done", "exit"}
        /\ futures[w].wpc # "exit" => ENABLED (FutureRun(w) \/ FutureDone(w))
        /\ Resolved(w) => futures[w].result = ZeroString

\* C28 witness: RaceAll without futures was the last call of the test
\* goroutine and its future has resolved to the zero string, while a future
\* with another value is unresolved.
C28_Witness ==
    \E w \in EmptyRaces :
        /\ Returned(TestGoroutine, "RaceAll")
        /\ th[TestGoroutine].fut = w
        /\ Resolved(w)
        /\ futures[w].result = ZeroString
        /\ futures[w].runs = 1
        /\ \E f \in 1..Len(futures) : futures[f].kind = "fn" /\ Pending(f)

\* The operations that are, or that make, a Handle call on an adapter.
HandleCalls == {"CatalogHandle", "AdapterHandle", "Handle", "HandleRaw",
                "HandleReq", "TypedHandleReq"}

\* Only a goroutine inside a Handle call is past the adapter's type check, and
\* then with a request of the adapter's type.
PastTypeCheck ==
    \A t \in Threads :
        th[t].pc \in {"ah_rlock", "ah_read", "ah_lock", "ah_wait", "ah_build",
                      "ah_reread", "ah_call"} =>
            /\ th[t].op \in HandleCalls
            /\ TypeOf(th[t].req) = heap[th[t].ad].reqType

\* The steps that change an adapter's count of factory calls: a new adapter
\* starts with none and no handler, and a call is made only by a goroutine
\* that is inside Handle on that adapter, past the type check and under the
\* adapter's lock, with a request of the adapter's type.
FactoryCalls ==
    \A a \in 1..Len(heap') :
        /\ a > Len(heap) => heap'[a].built = 0 /\ heap'[a].handler = 0
        /\ (a <= Len(heap) /\ heap'[a].built # heap[a].built) =>
                \E t \in Threads :
                    /\ th[t].pc = "ah_build" /\ th'[t].pc = "ah_reread"
                    /\ th[t].ad = a
                    /\ th[t].op \in HandleCalls
                    /\ TypeOf(th[t].req) = heap[a].reqType
                    /\ heap[a].mutex.holder = t

\* C29: a factory is called only inside a Handle call for its adapter's
\* request type: not by Insert, at catalog or Manager level, not by TypeMap or
\* a lookup, and not by a Handle call with a request of another type, which
\* never gets past the adapter's type check.
C29_FactoryOnlyOnHandle == []PastTypeCheck /\ [][FactoryCalls]_vars

\* C29 witness: an adapter is registered; a Handle call on it with a request
\* of another type returned the adapter's error, TypeMap returned the
\* adapter's type, and the factory has not been called.
C29_Witness ==
    \E t, u \in Threads :
        /\ Returned(t, "AdapterHandle")
        /\ TypeOf(th[t].req) # heap[th[t].ad].reqType
        /\ th[t].err # NilErr
        /\ ~th[t].called
        /\ Returned(u, "TypeMap")
        /\ DOMAIN th[u].typeMap = {heap[th[t].ad].reqType}
        /\ Len(heap) = 1
        /\ heap[1].built = 0 /\ heap[1].handler = 0

\* The goroutines that are inside the handler of adapter a.
InsideHandler(a) == {t \in Threads : th[t].pc = "ah_inside" /\ th[t].ad = a}

\* C30: a goroutine that is inside a handler holds no lock of the adapter and
\* only a read lock of the catalog, so a Handle call is never made to wait by
\* the calls that are inside a handler: whenever every other goroutine is idle
\* or inside a handler, the next step of a Handle call is enabled, whichever
\* step it is, and the call can run through the same handler and return.
C30_HandleNotSerialised ==
    /\ \A a \in 1..Len(heap) :
            InsideHandler(a) # {} =>
                /\ heap[a].mutex.holder \notin InsideHandler(a)
                /\ heap[a].mutex.waiter \notin InsideHandler(a)
                /\ heap[a].handler # 0
    /\ hcMutex.readers >= Cardinality({t \in Threads : th[t].pc = "ah_inside"})
    /\ hcMutex.holder \notin {t \in Threads : th[t].pc = "ah_inside"}
    /\ \A t \in Threads :
            (/\ th[t].op = "CatalogHandle"
             /\ th[t].pc \notin {"idle", "ah_inside"}
             /\ \A u \in Threads \ {t} : th[u].pc \in {"idle", "ah_inside"})
            => ENABLED SlowHandleStep(t)

\* C30 witness: a Handle call entered the handler while another call for the
\* same request type was inside it, and has returned the handler's result; the
\* other call is still inside the handler.
C30_Witness ==
    \E t, u \in Threads :
        /\ Returned(t, "CatalogHandle")
        /\ th[t].called /\ th[t].inside = 1
        /\ th[t].err = NilErr /\ th[t].res = th[t].hres
        /\ th[u].pc = "ah_inside"
        /\ th[u].ad = th[t].ad
        /\ TypeOf(th[u].req) = TypeOf(th[t].req)
        /\ heap[th[t].ad].built = 1

\* C31: whenever the untyped HandlerCatalog.Handle returned a non-nil error to
\* the typed Handle, every error of that error's chain is still in the chain
\* of the error the typed Handle returned.
C31_ErrorStillIdentifiable ==
    \A t \in Threads :
        (Returned(t, "Handle") /\ th[t].cerr # NilErr) =>
            \A i \in 1..Len(th[t].cerr) : Is(th[t].err, th[t].cerr[i])

\* The futures WaitAll returned.
WaitAllFutures == {f \in 1..Len(futures) : futures[f].kind = "WaitAll"}

\* Every input of the future f has resolved.
InputsResolved(f) ==
    \A i \in 1..Len(futures[f].in) : futures[futures[f].in[i]].waitGroup = 0

\* A future of WaitAll is resolved only if every one of its inputs is.
WaitAllAfterInputs ==
    \A f \in WaitAllFutures : futures[f].waitGroup = 0 => InputsResolved(f)

\* Every future of WaitAll whose inputs have all resolved is resolved.
WaitAllFollowsInputs ==
    \A f \in WaitAllFutures : InputsResolved(f) => futures[f].waitGroup = 0

\* A future of WaitAll with an input whose function never returns is pending.
WaitAllBlockedPending ==
    \A f \in WaitAllFutures :
        (\E i \in 1..Len(futures[f].in) : futures[futures[f].in[i]].wpc = "blocked")
            => futures[f].waitGroup = 1

\* C32: the future WaitAll returns is resolved only when every input is
\* resolved, so it stays pending for ever when some input never resolves; and
\* with a scheduler that does not stop while a spawned goroutine can take a
\* step, it is resolved some time after the last of its inputs has resolved,
\* in whatever order the inputs completed.
C32_WaitAllResolvesAfterAll ==
    /\ []WaitAllAfterInputs
    /\ []WaitAllBlockedPending
    /\ []<>WaitAllFollowsInputs

\* C32 witness: WaitAll over two futures has resolved, and its second input
\* completed before its first.
C32_Witness ==
    \E f \in WaitAllFutures :
        /\ Len(futures[f].in) = 2
        /\ futures[f].waitGroup = 0
        /\ futures[futures[f].in[2]].nth < futures[futures[f].in[1]].nth
        /\ futures[futures[f].in[2]].nth > 0

\* The futures RaceAll returned for a non-empty argument list.
RaceAllFutures == {f \in 1..Len(futures) : futures[f].kind = "RaceAll"}

\* Some input of the future f has resolved.
SomeInputResolved(f) ==
    \E i \in 1..Len(futures[f].in) : futures[futures[f].in[i]].waitGroup = 0

\* A future of RaceAll is past its receive only if some input has resolved.
RaceAfterSomeInput ==
    \A f \in RaceAllFutures :
        futures[f].wpc # "ra_spawn" /\ futures[f].wpc # "ra_receive"
            => SomeInputResolved(f)

\* Every future of RaceAll with an input that has resolved is resolved.
RaceFollowsSomeInput ==
    \A f \in RaceAllFutures : SomeInputResolved(f) => futures[f].waitGroup = 0

\* C33: the future RaceAll returns for a non-empty list has no value and is
\* not resolved while every input is pending; and with a scheduler that does
\* not stop while a spawned goroutine can take a step, it is resolved some
\* time after one input has resolved, also when the functions of all the
\* other inputs never return.
C33_RaceResolvesAfterOne ==
    /\ []RaceAfterSomeInput
    /\ []<>RaceFollowsSomeInput

\* C33 witness: RaceAll over two futures has resolved with the value of the
\* one that completed, while the function of the other one never returns.
C33_Witness ==
    \E f \in RaceAllFutures :
        /\ Len(futures[f].in) = 2
        /\ futures[f].waitGroup = 0
        /\ futures[f].result = Result3
        /\ \E i \in 1..2 : futures[futures[f].in[i]].wpc = "blocked"

\* C34: with handlers that dispatch another request through the same catalog,
\* there is no state in which a goroutine is inside an operation and no
\* goroutine that is inside one can take a step: a nested Handle and an
\* Insert that came between the outer and the inner Handle never wait for
\* each other.
C34_NestedHandleCompletes ==
    (\E t \in Threads : th[t].pc # "idle") => ENABLED (\E t \in Threads : NestedStep(t))

\* The request types and the names of the Mapping Catalog's completed Inserts.
InsertedTypes == {insLog[i].type : i \in 1..Len(insLog)}
InsertedNames == {insLog[i].name : i \in 1..Len(insLog)}

\* While a lookup is under the read lock no Insert is inside its critical
\* section, and the two maps hold both directions of the completed Inserts
\* and nothing else.
LookupSeesWholeInserts ==
    (\E t \in Threads : th[t].pc \in {"bn_read", "bt_read"}) =>
        /\ mapMutex.holder = NoThread
        /\ \A u \in Threads : th[u].pc \notin {"mi_name", "mi_type"}
        /\ {nameMappings[n] : n \in DOMAIN nameMappings} \subseteq DOMAIN typeMappings
        /\ {typeMappings[T] : T \in DOMAIN typeMappings} \subseteq DOMAIN nameMappings
        /\ DOMAIN nameMappings = InsertedNames
        /\ DOMAIN typeMappings = InsertedTypes

\* A ByName that succeeds returns the type of a completed Insert, a ByType
\* that succeeds the name of one; and a ByType of the type of a completed
\* Insert, and a ByName of the name of one, succeed.
LookupsAgree ==
    \A t \in Threads :
        /\ (th[t].pc = "bn_read" /\ th'[t].pc = "idle") =>
              /\ th'[t].err = NilErr => th'[t].rtype \in InsertedTypes
              /\ th[t].name \in InsertedNames => th'[t].err = NilErr
        /\ (th[t].pc = "bt_read" /\ th'[t].pc = "idle") =>
              /\ th'[t].err = NilErr => th'[t].rname \in InsertedNames
              /\ th[t].typ \in InsertedTypes => th'[t].err = NilErr

\* C35: a lookup never sees one direction of an Insert without the other:
\* the type a ByName returns is a key of typeMappings for every ByType that
\* reads afterwards, and the name a ByType returns a key of nameMappings.
C35_InsertAtomicForLookups ==
    /\ []LookupSeesWholeInserts
    /\ [][LookupsAgree]_vars

\* C35 witness: a ByName has returned a type, and a ByType of that type has
\* returned a name.
C35_Witness ==
    \E t, u \in Threads :
        /\ Returned(t, "ByName") /\ th[t].err = NilErr
        /\ th[t].rtype \in ReqTypes
        /\ Returned(u, "ByType") /\ th[u].err = NilErr
        /\ th[u].typ = th[t].rtype
        /\ th[u].rname \in Names

\* No Manager Insert is under way: every one that was started has returned.
InsertsCompleted ==
    \A t \in Threads : th[t].op = "ManagerInsert" => th[t].pc = "idle"

\* Every name the Mapping Catalog resolves leads to a request type with a
\* registered decoder and a registered handler adapter.
ResolvableIsComplete ==
    \A n \in DOMAIN nameMappings :
        /\ nameMappings[n] \in DOMAIN decoders
        /\ nameMappings[n] \in DOMAIN adapters

\* A HandleRaw that looks its name up in the state s' of this step, with all
\* Inserts completed, is marked as having resolved a fully registered type.
ResolvesComplete ==
    \A t \in Threads :
        (th[t].op = "HandleRaw" /\ th[t].pc = "bn_read" /\ th'[t].pc # "bn_read"
         /\ InsertsCompleted /\ th[t].name \in DOMAIN nameMappings)
        => th'[t].full

\* C36: when every Manager Insert that was started has returned, whatever
\* names and types they registered, every resolvable name leads to a type
\* with a decoder and a handler adapter; and a HandleRaw that resolved its
\* name in such a state does not return DecoderMissing or HandlerMissing.
C36_CompletedInsertsComplete ==
    /\ [](InsertsCompleted => ResolvableIsComplete)
    /\ [][ResolvesComplete]_vars
    /\ [](\A t \in Threads :
            (Returned(t, "HandleRaw") /\ th[t].full) =>
                /\ ~Is(th[t].err, ErrDecoderMissing)
                /\ ~Is(th[t].err, ErrHandlerMissing))

\* C36 witness: two Manager Inserts have returned, under one name and with
\* two request types, and a HandleRaw of that name, started afterwards, went
\* through to the handler of the type registered last.
C36_Witness ==
    \E t \in Threads :
        /\ ops = 3
        /\ Cardinality(DOMAIN nameMappings) = 1
        /\ DOMAIN adapters = ReqTypes
        /\ InsertsCompleted
        /\ Returned(t, "HandleRaw") /\ th[t].full /\ th[t].called
        /\ th[t].err = NilErr

\* C37: the pair that Wait returns on the future of the typed Future wrapper
\* is the pair the typed Handle returns for the same outcome of the catalog's
\* untyped Handle, whatever that outcome is.
C37_FutureAgreesWithHandle ==
    \A t \in Threads :
        Returned(t, "Future") =>
            LET h == Handle(th[t].cres, th[t].cerr, th[t].tres) IN
            th[t].res = h.res /\ th[t].err = h.err

\* C38: the typed HandleReq of the Manager never panics, and when the handler
\* returned a result of another type than TRes it returns the zero value of
\* TRes and a non-nil error.
C38_HandleReqReportsMismatch ==
    \A t \in Threads :
        th[t].op = "TypedHandleReq" =>
            /\ th[t].pc # "panic"
            /\ (th[t].pc = "idle" /\ th[t].called /\ TypeOf(th[t].hres) # th[t].tres)
                => th[t].res = ZeroOf(th[t].tres) /\ th[t].err # NilErr

\* A Handle on an adapter whose factory returns nil, with a request of the
\* adapter's type, returned a nil result and a HandlerMissing error and
\* invoked no handler.
NilFactoryHandlerMissing ==
    \A t \in Threads :
        (/\ Returned(t, "AdapterHandle")
         /\ heap[th[t].ad].factory = "nil"
         /\ TypeOf(th[t].req) = heap[th[t].ad].reqType)
        => /\ th[t].res = NilVal
           /\ Is(th[t].err, ErrHandlerMissing)
           /\ ~th[t].called

\* C39: a Handle on an adapter whose factory returns nil returns a nil result
\* and HandlerMissing, invokes no handler, and the adapter's factory has been
\* called at most once, however many Handle calls there were.
C39_NilFactoryOnce ==
    /\ NilFactoryHandlerMissing
    /\ \A a \in 1..Len(heap) : heap[a].factory = "nil" => heap[a].built <= 1

\* The construction step of a Handle on an adapter whose factory returns nil
\* calls the factory once more and leaves the handler field nil.
NilFactoryCalledAgain ==
    \A t \in Threads :
        (/\ th[t].pc = "ah_build" /\ th'[t].pc = "ah_reread"
         /\ heap[th[t].ad].factory = "nil")
        => /\ heap'[th[t].ad].built = heap[th[t].ad].built + 1
           /\ heap'[th[t].ad].handler = 0

\* C39 amended: a Handle on an adapter whose factory returns nil returns a nil
\* result and HandlerMissing and invokes no handler; the nil is never kept,
\* so every such Handle calls the factory once more; an adapter whose factory
\* returns a handler calls it at most once.
C39_NilFactoryCalledByEveryHandle ==
    /\ []NilFactoryHandlerMissing
    /\ [](\A a \in 1..Len(heap) :
            /\ heap[a].factory = "nil" => heap[a].handler = 0
            /\ heap[a].factory = "handler" => heap[a].built <= 1)
    /\ [][NilFactoryCalledAgain]_vars

\* C39 witness: two Handle calls on one adapter whose factory returns nil have
\* returned HandlerMissing, and the factory has been called twice.
C39_Witness ==
    \E t, u \in Threads :
        /\ t # u
        /\ Returned(t, "AdapterHandle") /\ Returned(u, "AdapterHandle")
        /\ th[t].ad = th[u].ad
        /\ heap[th[t].ad].factory = "nil"
        /\ Is(th[t].err, ErrHandlerMissing) /\ Is(th[u].err, ErrHandlerMissing)
        /\ heap[th[t].ad].built = 2

\* Goroutine t is at its read of a.handler outside the lock while goroutine u
\* holds the lock of the same adapter and is about to write the field: the
\* read and the write are ordered by nothing.
RereadRacesWithWrite(t, u) ==
    /\ t # u
    /\ th[t].pc = "ah_reread"
    /\ th[u].pc = "ah_build"
    /\ th[u].ad = th[t].ad
    /\ heap[th[u].ad].handler = 0

\* C40: no read of the adapter's handler field outside the lock is concurrent
\* with a write of that field by another goroutine, and the handler a
\* goroutine is about to use is the one stored in the adapter under the lock.
C40_RereadNeverRaces ==
    /\ \A t, u \in Threads : ~RereadRacesWithWrite(t, u)
    /\ \A t \in Threads :
        (th[t].pc = "ah_call" /\ th[t].handler # 0) =>
            th[t].handler = heap[th[t].ad].handler

====
